---- MODULE Spec2Model ----
(***************************************************************************)
(* Fireflies in a jar: the swarm simulation engine of src/main.js.        *)
(*                                                                         *)
(* Numbers.  The program computes with IEEE doubles; the model computes    *)
(* with fixed-point integers.  Lengths, positions, velocities and forces   *)
(* are in thousandths of a world unit, angles and phases in milliradians,  *)
(* times in milliseconds, dimensionless factors (proximity, brightness,    *)
(* flocking strength, sines) in thousandths.  Quotients are rounded        *)
(* toward zero (so that x and -x are treated alike) and vector lengths     *)
(* upward (so that a rescaled vector is never longer than the real-valued  *)
(* result).  Comparisons of a distance with a radius are made on the       *)
(* exact squares.                                                          *)
(*                                                                         *)
(* The scene, the renderer, the audio, the zoom and the frosted glass      *)
(* neither read nor write the state of the swarm and are left out.         *)
(***************************************************************************)
EXTENDS Integers, Sequences, FiniteSets, TLC

(***************************************************************************)
(* Bounds of the exploration.                                              *)
(***************************************************************************)
\* Number of fireflies created at start-up and by a reset (100 in the code).
FIREFLY_COUNT == 2
\* Number of fireflies that carry a point light (15 in the code).
LIGHTS_COUNT == 1
\* Frames explored.
MaxTicks == 2
\* Input events (key and mouse events) explored.
MaxEvents == 3
\* Input events explored when the pointer is the only input.
MaxPointerEvents == 4
\* Frames and key events explored when the forward key is the only input.
MaxCatchTicks == 6
MaxCatchEvents == 2
\* Pointer events explored when no frame runs between them.
MaxDragEvents == 5

(***************************************************************************)
(* Program constants, in the model's units.                                *)
(***************************************************************************)
\* One world unit, one radian, one second, or the factor 1.0.
Scale == 10 * 10 * 10

separationDistance == 500
alignmentDistance == 1500
cohesionDistance == 2000
\* Weights in thousandths.
separationWeight == 1500
alignmentWeight == 1000
cohesionWeight == 1200
maxSpeed == 100
maxForce == 50
jarRadius == 1800
jarHeight == 3500
GROUND_LEVEL == -1900
\* The 0.01 offset of the lid and wall clamps.
ClampOffset == 10
\* Separation radius used while the jar is open.
OpenSeparationRadius == 6000

couplingStrength == 2
couplingRadius == 2500
baseFrequency == 1500
frequencyVariance == 300
brightnessThreshold == -300
minBrightness == 500
maxBrightness == 2000

REPULSION_RADIUS == 3500
MAX_BURST_MULTIPLIER == 8
MAX_REPULSION_FORCE == 2000
POKE_DURATION == 1000

CAMERA_MOVE_SPEED == 10
FIREFLY_CATCH_RADIUS_INSIDE == 500
FIREFLY_CATCH_RADIUS_OUTSIDE == 1500
DRAG_THRESHOLD == 5
\* Milliradians per pixel.
MOUSE_SENSITIVITY == 2

TONGUE_EXTEND_SPEED == 8
TONGUE_RETRACT_SPEED == 4
TONGUE_HOLD_TIME == 150
LID_OPEN_ANGLE == 1571
\* Lid speed, radians per second.
LidSpeed == 2

PI == 3142
TwoPi == 6283
HalfPi == 1571

(***************************************************************************)
(* Arithmetic.                                                             *)
(***************************************************************************)
Abs(a) == IF a < 0 THEN -a ELSE a

\* a / b, rounded toward zero (b > 0).
Quot(a, b) == IF a >= 0 THEN a \div b ELSE -((-a) \div b)

\* Newton's iteration for the integer square root, from a start x >= sqrt(n).
RECURSIVE SqrtIter(_, _)
SqrtIter(n, x) ==
    LET Step(y) == IF y >= x THEN x ELSE SqrtIter(n, y)
    IN  Step((x + n \div x) \div 2)

\* floor(sqrt(n)), n >= 0.
FloorSqrt(n) ==
    IF n = 0 THEN 0
    ELSE SqrtIter(n, IF n < 10000 THEN 100
                     ELSE IF n < 1000000 THEN 1000
                     ELSE IF n < 100000000 THEN 10000
                     ELSE 46340)

\* ceil(sqrt(n)), n >= 0.
CeilSqrt(n) ==
    LET Up(f) == IF f * f = n THEN f ELSE f + 1
    IN  Up(FloorSqrt(n))

\* Math.sin on [0, pi], by Bhaskara's formula 16x(pi-x) / (5pi^2 - 4x(pi-x)).
SinHalfTurn(x) ==
    LET p == x * (PI - x)
    IN  (16 * p) \div ((5 * PI * PI - 4 * p) \div Scale)

\* Math.sin of any angle (milliradians), in thousandths.
Sin(x) ==
    LET r == x % TwoPi
    IN  IF r <= PI THEN SinHalfTurn(r) ELSE -SinHalfTurn(TwoPi - r)

\* Math.cos.
Cos(x) == Sin(x + HalfPi)

(***************************************************************************)
(* THREE.Vector3, as a triple <<x, y, z>>.                                 *)
(***************************************************************************)
Zero3 == <<0, 0, 0>>

VAdd(a, b) == <<a[1] + b[1], a[2] + b[2], a[3] + b[3]>>
VSub(a, b) == <<a[1] - b[1], a[2] - b[2], a[3] - b[3]>>

\* v * (num / den).
VScale(v, num, den) ==
    <<Quot(v[1] * num, den), Quot(v[2] * num, den), Quot(v[3] * num, den)>>

LengthSq(v) == v[1] * v[1] + v[2] * v[2] + v[3] * v[3]
Length(v) == CeilSqrt(LengthSq(v))
DistanceSq(a, b) == LengthSq(VSub(a, b))
DistanceTo(a, b) == Length(VSub(a, b))

\* v.normalize().multiplyScalar(len): the zero vector stays zero.
\* A long vector is first divided down, so that its squares stay within the
\* integer range; the direction is what matters.
SetLength(v, len) ==
    LET Rescale(w) == IF LengthSq(w) = 0 THEN Zero3 ELSE VScale(w, len, Length(w))
        Shrink(big) == IF big > 16384 THEN VScale(v, 1, big \div 16384 + 1) ELSE v
    IN  Rescale(Shrink(Abs(v[1]) + Abs(v[2]) + Abs(v[3])))

\* v.normalize(): a unit vector, in thousandths.
Normalize(v) == SetLength(v, Scale)

\* limit with its comparison inverted.
limitInverted(v, max) ==
    IF LengthSq(v) < max * max THEN SetLength(v, max) ELSE v

\* limit(vector, max).
limit(v, max) ==
    IF LengthSq(v) > max * max THEN SetLength(v, max) ELSE v

(***************************************************************************)
(* Inputs: what Math.random(), the clock, the pointer and the ray cast     *)
(* can deliver.                                                            *)
(***************************************************************************)
\* A firefly as the creation loop draws it: a position in the cylinder of
\* 0.8 jarRadius and 0.8 jarHeight, velocity components within +-0.025, a
\* phase in [0, 2pi) and a frequency within baseFrequency +- variance.
SpawnSamples ==
    { [position |-> <<-1400, 1399, 0>>, velocity |-> <<10, 20, -5>>,
       phase |-> 5533, frequency |-> 1500],
      [position |-> <<0, 1300, 0>>, velocity |-> <<-20, 5, 10>>,
       phase |-> 1000, frequency |-> 1700] }

\* A firefly in the middle of a run with the jar open, after it has left
\* through the mouth: outside the wall radius below the rim, above the rim,
\* outside the wall radius above the rim, and far from the jar, farther than
\* couplingRadius from the fireflies at the wall.  Its speed is within
\* maxSpeed.
RunSamples ==
    { [position |-> <<-2500, 1700, 0>>, velocity |-> <<-60, -80, 0>>,
       phase |-> 2000, frequency |-> 1400],
      [position |-> <<300, 2100, -200>>, velocity |-> <<30, 90, 0>>,
       phase |-> 4000, frequency |-> 1600],
      [position |-> <<-1900, 1760, 100>>, velocity |-> <<-90, 10, 20>>,
       phase |-> 100, frequency |-> 1500],
      [position |-> <<2600, 2400, 0>>, velocity |-> <<50, 40, 0>>,
       phase |-> 3000, frequency |-> 1300] }

\* clock.getDelta(), in milliseconds.
DeltaTimes == {100, 500}
\* The same, for the frames that run a poke out: two frames of 0.5 s bring
\* the timer to POKE_DURATION exactly.
PokeDeltaTimes == {400, 500}

\* The random vector of wander(): components in [-0.5, 0.5).
NoiseSamples == { <<300, 400, 0>>, <<-500, 0, 200>> }

\* Points of the jar body (radius 2, height 4) that a click's ray can hit.
PokePoints == { <<-2000, 900, 0>> }
\* pokePosition = null.
NoPoke == <<>>

\* event.clientX, event.clientY.
MousePoints == { <<0, 0>>, <<8, 0>> }

\* event.key.
Keys == {" ", "r", "w"}
MoveKeys == {"w", "a", "s", "d", "q", "e"}

\* fireflyPointLights[i] = null.
NoLight == [id |-> 0, intensity |-> 0]

(***************************************************************************)
(* State.                                                                  *)
(***************************************************************************)
VARIABLES
    \* The per-firefly arrays.  fireflies[i] is the THREE.Group, an object
    \* with its identity (id) and its position.
    fireflies, fireflyVelocities, fireflyPositions, fireflyMaterials,
    fireflyPhases, fireflyFrequencies, fireflyGlowSprites, fireflyPointLights,
    \* Jar.
    jarOpen, lidRotation,
    \* Poke.
    pokePosition, pokeTime,
    \* Pointer and camera.
    isDragging, hasDragged, previousMouse, dragStart, cameraEuler,
    cameraPosition, keysPressed,
    \* Capture.
    bugsCaught, tongueState, tongueProgress, tongueHoldTimer, tongueVisible,
    \* animate(): the call it has reached and the deltaTime of the frame.
    pc, deltaTime,
    \* The locals of the last updateBoids call, per firefly (with the
    \* position its pass found, the velocity the forces gave, the position
    \* applyJarBoundary left, the neighbours its loops accepted and the
    \* divisors of its divisions), the brightness
    \* of the last updateKuramoto call, and the intersection the last
    \* onMouseClick found (NoPoke when the ray missed the jar).
    boidsLocals, brightness, intersects,
    \* Frames and input events so far.
    ticks, events,
    \* The number of resetSimulation calls since the last other call.
    resets,
    \* Whether a click has hit the jar since the last updateBoids call.
    hitSinceBoids

arrayVars == <<fireflies, fireflyVelocities, fireflyPositions, fireflyMaterials,
               fireflyPhases, fireflyFrequencies, fireflyGlowSprites,
               fireflyPointLights>>
jarVars == <<jarOpen, lidRotation>>
pokeVars == <<pokePosition, pokeTime>>
mouseVars == <<isDragging, hasDragged, previousMouse, dragStart>>
cameraVars == <<cameraEuler, cameraPosition>>
tongueVars == <<tongueState, tongueProgress, tongueHoldTimer, tongueVisible>>
frameVars == <<pc, deltaTime>>
localVars == <<boidsLocals, brightness>>
historyVars == <<ticks, events, resets, hitSinceBoids>>

vars == <<arrayVars, jarVars, pokeVars, mouseVars, cameraVars, keysPressed,
          bugsCaught, tongueVars, frameVars, localVars, intersects,
          historyVars>>

(***************************************************************************)
(* Steering forces.  P and V are the arrays of positions and velocities    *)
(* as the call finds them.                                                 *)
(***************************************************************************)
RECURSIVE VSum(_, _, _)
\* The sum of f[j] over the indices j of S, taken in the loop's order.
VSum(f, S, n) ==
    IF n = 0 THEN Zero3
    ELSE IF n \in S THEN VAdd(VSum(f, S, n - 1), f[n])
    ELSE VSum(f, S, n - 1)

\* The neighbours the three loops accept: others closer than radius, not
\* coincident.
Neighbours(P, i, radius) ==
    { j \in 1..Len(P) : /\ j # i
                        /\ DistanceSq(P[i], P[j]) < radius * radius
                        /\ DistanceSq(P[i], P[j]) > 0 }

\* The steer-toward pattern: normalize, scale to maxSpeed, subtract the own
\* velocity, clamp to maxForce.
SteerToward(dir, vel) ==
    limit(VSub(SetLength(dir, maxSpeed), vel), maxForce)

\* separation with a loop that starts behind the firefly's own index.
separationLaterOnly(P, V, i, radius) ==
    LET nb == { j \in Neighbours(P, i, radius) : j > i }
        diff == [j \in 1..Len(P) |->
                   IF j \in nb
                   THEN VScale(Normalize(VSub(P[i], P[j])), Scale,
                               DistanceTo(P[i], P[j]))
                   ELSE Zero3]
        count == Cardinality(nb)
        steer == IF count > 0
                 THEN SteerToward(VScale(VSum(diff, nb, Len(P)), 1, count), V[i])
                 ELSE Zero3
    IN  VScale(steer, separationWeight, Scale)

separation(P, V, i, radius) ==
    LET nb == Neighbours(P, i, radius)
        diff == [j \in 1..Len(P) |->
                   IF j \in nb
                   THEN VScale(Normalize(VSub(P[i], P[j])), Scale,
                               DistanceTo(P[i], P[j]))
                   ELSE Zero3]
        count == Cardinality(nb)
        steer == IF count > 0
                 THEN SteerToward(VScale(VSum(diff, nb, Len(P)), 1, count), V[i])
                 ELSE Zero3
    IN  VScale(steer, separationWeight, Scale)

alignment(P, V, i) ==
    LET nb == Neighbours(P, i, alignmentDistance)
        count == Cardinality(nb)
        steer == IF count > 0
                 THEN SteerToward(VScale(VSum(V, nb, Len(P)), 1, count), V[i])
                 ELSE Zero3
    IN  VScale(steer, alignmentWeight, Scale)

cohesion(P, V, i) ==
    LET nb == Neighbours(P, i, cohesionDistance)
        count == Cardinality(nb)
        center == VScale(VSum(P, nb, Len(P)), 1, count)
    IN  IF count > 0
        THEN VScale(SteerToward(VSub(center, P[i]), V[i]), cohesionWeight, Scale)
        ELSE Zero3

\* noise is the random vector of this call.
wander(V, i, noise) ==
    VScale(limit(VSub(SetLength(noise, maxSpeed), V[i]), maxForce), 500, Scale)

\* getRepulsion without the weight by time.
getRepulsionNoDecay(P, i, poke, ptime) ==
    IF poke = NoPoke THEN Zero3
    ELSE
      LET distance == DistanceTo(P[i], poke)
          strength == Scale - Quot(distance * Scale, REPULSION_RADIUS)
          exponentialStrength == Quot(strength * strength, Scale)
          force == Quot(MAX_REPULSION_FORCE * exponentialStrength, Scale)
      IN  IF DistanceSq(P[i], poke) < REPULSION_RADIUS * REPULSION_RADIUS
          THEN VScale(Normalize(VSub(P[i], poke)), force, Scale)
          ELSE Zero3

getRepulsion(P, i, poke, ptime) ==
    IF poke = NoPoke THEN Zero3
    ELSE
      LET distance == DistanceTo(P[i], poke)
          strength == Scale - Quot(distance * Scale, REPULSION_RADIUS)
          exponentialStrength == Quot(strength * strength, Scale)
          timeWeight == Scale - Quot(ptime * Scale, POKE_DURATION)
          force == Quot(Quot(MAX_REPULSION_FORCE * exponentialStrength, Scale)
                          * timeWeight, Scale)
      IN  IF DistanceSq(P[i], poke) < REPULSION_RADIUS * REPULSION_RADIUS
          THEN VScale(Normalize(VSub(P[i], poke)), force, Scale)
          ELSE Zero3

\* distSq = pos.x * pos.x + pos.z * pos.z.
RadialSqOf(pos) == pos[1] * pos[1] + pos[3] * pos[3]

(***************************************************************************)
(* The jar boundary.                                                       *)
(***************************************************************************)
\* The floor for fireflies within the wall radius only.
BoundaryFloorInsideOnly(b) ==
    IF /\ b.position[2] < GROUND_LEVEL
       /\ b.position[1] * b.position[1] + b.position[3] * b.position[3]
             <= jarRadius * jarRadius
    THEN [position |-> <<b.position[1], GROUND_LEVEL, b.position[3]>>,
          velocity |-> IF b.velocity[2] < 0
                       THEN <<b.velocity[1], -Quot(b.velocity[2], 2), b.velocity[3]>>
                       ELSE b.velocity]
    ELSE b

\* 1. Global floor.
BoundaryFloor(b) ==
    IF b.position[2] < GROUND_LEVEL
    THEN [position |-> <<b.position[1], GROUND_LEVEL, b.position[3]>>,
          velocity |-> IF b.velocity[2] < 0
                       THEN <<b.velocity[1], -Quot(b.velocity[2], 2), b.velocity[3]>>
                       ELSE b.velocity]
    ELSE b

\* 2. Lid, only if the jar is closed.
BoundaryLid(b, open) ==
    IF ~open /\ b.position[2] > jarHeight \div 2
    THEN [position |-> <<b.position[1], jarHeight \div 2 - ClampOffset, b.position[3]>>,
          velocity |-> IF b.velocity[2] > 0
                       THEN <<b.velocity[1], -Quot(b.velocity[2], 2), b.velocity[3]>>
                       ELSE b.velocity]
    ELSE b

\* The wall check with canEscape = jarOpen, whatever the height.
BoundaryWallNoRim(b, open) ==
    LET x == b.position[1]
        y == b.position[2]
        z == b.position[3]
        distSq == x * x + z * z
        isAboveRim == y > jarHeight \div 2
        canEscape == open
        dist == CeilSqrt(distSq)
        nx == Quot(x * (jarRadius - ClampOffset), dist)
        nz == Quot(z * (jarRadius - ClampOffset), dist)
        normalX == Quot(nx * Scale, dist)
        normalZ == Quot(nz * Scale, dist)
        vx == b.velocity[1]
        vz == b.velocity[3]
        vDotN == Quot(vx * normalX + vz * normalZ, Scale)
        rx == vx - Quot(2 * vDotN * normalX, Scale)
        rz == vz - Quot(2 * vDotN * normalZ, Scale)
    IN  IF distSq > jarRadius * jarRadius /\ ~canEscape
        THEN [position |-> <<nx, y, nz>>,
              velocity |-> IF vDotN > 0
                           THEN <<Quot(rx, 2), b.velocity[2], Quot(rz, 2)>>
                           ELSE b.velocity]
        ELSE b

\* The wall clamp onto jarRadius itself, without the 0.01 offset.
BoundaryWallNoOffset(b, open) ==
    LET x == b.position[1]
        y == b.position[2]
        z == b.position[3]
        distSq == x * x + z * z
        isAboveRim == y > jarHeight \div 2
        canEscape == open /\ isAboveRim
        dist == CeilSqrt(distSq)
        nx == Quot(x * jarRadius, dist)
        nz == Quot(z * jarRadius, dist)
        normalX == Quot(nx * Scale, dist)
        normalZ == Quot(nz * Scale, dist)
        vx == b.velocity[1]
        vz == b.velocity[3]
        vDotN == Quot(vx * normalX + vz * normalZ, Scale)
        rx == vx - Quot(2 * vDotN * normalX, Scale)
        rz == vz - Quot(2 * vDotN * normalZ, Scale)
    IN  IF distSq > jarRadius * jarRadius /\ ~canEscape
        THEN [position |-> <<nx, y, nz>>,
              velocity |-> IF vDotN > 0
                           THEN <<Quot(rx, 2), b.velocity[2], Quot(rz, 2)>>
                           ELSE b.velocity]
        ELSE b

\* The wall step without the friction.
BoundaryWallNoFriction(b, open) ==
    LET x == b.position[1]
        y == b.position[2]
        z == b.position[3]
        distSq == x * x + z * z
        isAboveRim == y > jarHeight \div 2
        canEscape == open /\ isAboveRim
        dist == CeilSqrt(distSq)
        nx == Quot(x * (jarRadius - ClampOffset), dist)
        nz == Quot(z * (jarRadius - ClampOffset), dist)
        normalX == Quot(nx * Scale, dist)
        normalZ == Quot(nz * Scale, dist)
        vx == b.velocity[1]
        vz == b.velocity[3]
        vDotN == Quot(vx * normalX + vz * normalZ, Scale)
        rx == vx - Quot(2 * vDotN * normalX, Scale)
        rz == vz - Quot(2 * vDotN * normalZ, Scale)
    IN  IF distSq > jarRadius * jarRadius /\ ~canEscape
        THEN [position |-> <<nx, y, nz>>,
              velocity |-> IF vDotN > 0
                           THEN <<rx, b.velocity[2], rz>>
                           ELSE b.velocity]
        ELSE b

\* 3. Glass walls.  The normal is taken from the position that was just
\* moved to the wall, divided by the distance before the move.
BoundaryWall(b, open) ==
    LET x == b.position[1]
        y == b.position[2]
        z == b.position[3]
        distSq == x * x + z * z
        isAboveRim == y > jarHeight \div 2
        canEscape == open /\ isAboveRim
        dist == CeilSqrt(distSq)
        nx == Quot(x * (jarRadius - ClampOffset), dist)
        nz == Quot(z * (jarRadius - ClampOffset), dist)
        normalX == Quot(nx * Scale, dist)
        normalZ == Quot(nz * Scale, dist)
        vx == b.velocity[1]
        vz == b.velocity[3]
        vDotN == Quot(vx * normalX + vz * normalZ, Scale)
        rx == vx - Quot(2 * vDotN * normalX, Scale)
        rz == vz - Quot(2 * vDotN * normalZ, Scale)
    IN  IF distSq > jarRadius * jarRadius /\ ~canEscape
        THEN [position |-> <<nx, y, nz>>,
              velocity |-> IF vDotN > 0
                           THEN <<Quot(rx, 2), b.velocity[2], Quot(rz, 2)>>
                           ELSE b.velocity]
        ELSE b

\* applyJarBoundary, on the position and velocity of one firefly.
applyJarBoundary(position, velocity, open) ==
    BoundaryWall(
        BoundaryLid(
            BoundaryFloor([position |-> position, velocity |-> velocity]),
            open),
        open)

(***************************************************************************)
(* updateBoids.                                                            *)
(***************************************************************************)
\* Whether the poke reaches firefly i.
PokeReaches(P, i, poke) ==
    /\ poke # NoPoke
    /\ DistanceSq(P[i], poke) < REPULSION_RADIUS * REPULSION_RADIUS

\* timeProgress = pokeTime / POKE_DURATION.
TimeProgress(ptime) == Quot(ptime * Scale, POKE_DURATION)

\* The flocking strength taken from the time that is left, as the weight of
\* the repulsion is.
FlockingStrengthOfTimeLeft(P, i, poke, ptime) ==
    IF PokeReaches(P, i, poke)
    THEN Quot((Scale - TimeProgress(ptime)) * (Scale - TimeProgress(ptime)), Scale)
    ELSE Scale

FlockingStrength(P, i, poke, ptime) ==
    IF PokeReaches(P, i, poke)
    THEN Quot(TimeProgress(ptime) * TimeProgress(ptime), Scale)
    ELSE Scale

CurrentSpeedLimit(P, i, poke, ptime) ==
    IF PokeReaches(P, i, poke)
    THEN LET proximity == Scale - Quot(DistanceTo(P[i], poke) * Scale, REPULSION_RADIUS)
             decayFactor == Quot(Quot(proximity * proximity, Scale) * proximity, Scale)
             burstAmount == Quot(maxSpeed * MAX_BURST_MULTIPLIER * decayFactor, Scale)
         IN  maxSpeed + Quot(burstAmount * (Scale - TimeProgress(ptime)), Scale)
    ELSE maxSpeed

\* The forces with alignment and cohesion at full strength, whatever the
\* flocking strength.
ApplyForcesUnscaled(v, f, open, poke) ==
    LET v1 == IF poke # NoPoke THEN VAdd(v, f.rep) ELSE v
        v2 == VAdd(v1, VScale(f.sep, IF open THEN 100 ELSE Scale, Scale))
    IN  IF open
        THEN VAdd(VAdd(VAdd(v2, VScale(f.coh, 100, Scale)),
                       VScale(f.ali, 100, Scale)),
                  VScale(f.wan, 500, Scale))
        ELSE VAdd(VAdd(v2, f.ali), f.coh)

\* The velocity of firefly i after the forces are added.
ApplyForces(v, f, open, poke) ==
    LET v1 == IF poke # NoPoke THEN VAdd(v, f.rep) ELSE v
        v2 == VAdd(v1, VScale(f.sep, IF open THEN 100 ELSE Scale, Scale))
        weak == Quot(100 * f.flockingStrength, Scale)
    IN  IF open
        THEN VAdd(VAdd(VAdd(v2, VScale(f.coh, weak, Scale)),
                       VScale(f.ali, weak, Scale)),
                  VScale(f.wan, 500, Scale))
        ELSE VAdd(VAdd(v2, VScale(f.ali, f.flockingStrength, Scale)),
                  VScale(f.coh, f.flockingStrength, Scale))

\* The divisors of separation(i) if its loop took every other firefly within
\* the radius, the coincident ones too.
SeparationDivisorsWithCoincident(P, i, radius) ==
    { DistanceTo(P[i], P[j]) :
        j \in { k \in 1..Len(P) : /\ k # i
                                  /\ DistanceSq(P[i], P[k]) < radius * radius } }
       \cup (IF Cardinality(Neighbours(P, i, radius)) > 0
             THEN {Cardinality(Neighbours(P, i, radius))} ELSE {})

\* The divisors of separation(i): the distance of every neighbour the loop
\* accepts (diff.divideScalar(distance)) and, if there is one, their count.
SeparationDivisors(P, i, radius) ==
    { DistanceTo(P[i], P[j]) : j \in Neighbours(P, i, radius) }
       \cup (IF Cardinality(Neighbours(P, i, radius)) > 0
             THEN {Cardinality(Neighbours(P, i, radius))} ELSE {})

\* The divisor of the average in alignment(i) and cohesion(i): the count of
\* the neighbours, when there is one.
AverageDivisors(P, i, radius) ==
    IF Cardinality(Neighbours(P, i, radius)) > 0
    THEN {Cardinality(Neighbours(P, i, radius))} ELSE {}

\* The divisor of the wall clamp: dist, when the firefly is beyond the wall
\* and may not escape.
WallDivisors(b, open) ==
    IF /\ RadialSqOf(b.position) > jarRadius * jarRadius
       /\ ~(open /\ b.position[2] > jarHeight \div 2)
    THEN {CeilSqrt(RadialSqOf(b.position))} ELSE {}

\* The divisor of the coupling of firefly i in updateKuramoto: neighborCount,
\* when it is positive.
KuramotoDivisors(P, i) ==
    LET neighborCount ==
            Cardinality({ j \in 1..Len(P) :
                            j # i /\ DistanceSq(P[i], P[j])
                                        < couplingRadius * couplingRadius })
    IN  IF neighborCount > 0 THEN {neighborCount} ELSE {}

\* One pass of the loop body, for firefly i, on the arrays as they are now.
BoidsBody(P, V, i, noise, open, poke, ptime) ==
    LET sepRadius == IF open THEN OpenSeparationRadius ELSE separationDistance
        \* position.add(velocity), with the velocity v limited before.
        Integrate(f, b, v) ==
            [position |-> VAdd(b.position, v),
             velocity |-> v,
             locals |-> [position |-> P[i],
                         sep |-> f.sep, ali |-> f.ali, coh |-> f.coh, rep |-> f.rep,
                         wan |-> f.wan,
                         inPoke |-> PokeReaches(P, i, poke),
                         flockingStrength |-> f.flockingStrength,
                         currentSpeedLimit |-> f.currentSpeedLimit,
                         forced |-> ApplyForces(V[i], f, open, poke),
                         boundaryPosition |-> b.position,
                         neighbours |-> Neighbours(P, i, sepRadius)
                                          \cup Neighbours(P, i, alignmentDistance)
                                          \cup Neighbours(P, i, cohesionDistance),
                         divisors |-> SeparationDivisors(P, i, sepRadius)
                                        \cup AverageDivisors(P, i, alignmentDistance)
                                        \cup AverageDivisors(P, i, cohesionDistance)
                                        \cup WallDivisors(
                                               BoundaryLid(
                                                 BoundaryFloor(
                                                   [position |-> P[i],
                                                    velocity |->
                                                      ApplyForces(V[i], f, open, poke)]),
                                                 open),
                                               open)]]
        \* limit(velocity, currentSpeedLimit), after the boundary gave b.
        Limit(f, b) == Integrate(f, b, limit(b.velocity, f.currentSpeedLimit))
        \* The forces f are added and applyJarBoundary is called.
        Apply(f) ==
            Limit(f, applyJarBoundary(P[i], ApplyForces(V[i], f, open, poke), open))
    IN  Apply([sep |-> separation(P, V, i, sepRadius),
               ali |-> alignment(P, V, i),
               coh |-> cohesion(P, V, i),
               rep |-> getRepulsion(P, i, poke, ptime),
               wan |-> wander(V, i, noise),
               flockingStrength |-> FlockingStrength(P, i, poke, ptime),
               currentSpeedLimit |-> CurrentSpeedLimit(P, i, poke, ptime)])

RECURSIVE BoidsLoop(_, _, _, _, _, _, _, _)
\* The loop over the fireflies from index i on: each pass writes the
\* position and the velocity of its firefly into the arrays the next pass
\* reads.
BoidsLoop(P, V, L, i, noise, open, poke, ptime) ==
    IF i > Len(P) THEN [P |-> P, V |-> V, L |-> L]
    ELSE LET Write(r) == BoidsLoop([P EXCEPT ![i] = r.position],
                                   [V EXCEPT ![i] = r.velocity],
                                   Append(L, r.locals),
                                   i + 1, noise, open, poke, ptime)
         IN  Write(BoidsBody(P, V, i, noise[i], open, poke, ptime))

updateBoids(P, V, noise, open, poke, ptime) ==
    BoidsLoop(P, V, <<>>, 1, noise, open, poke, ptime)

(***************************************************************************)
(* updateKuramoto.                                                         *)
(***************************************************************************)
RECURSIVE CouplingSum(_, _, _, _)
\* The sum of sin(phase_j - phase_i) over the fireflies j of S among 1..n.
CouplingSum(Ph, i, S, n) ==
    IF n = 0 THEN 0
    ELSE CouplingSum(Ph, i, S, n - 1)
           + (IF n \in S THEN Sin(Ph[n] - Ph[i]) ELSE 0)

\* The derivative without the test of the distance: every other firefly
\* couples.
PhaseDerivativeAllCoupled(P, Ph, Fr, i) ==
    LET nb == { j \in 1..Len(P) : j # i }
        neighborCount == Cardinality(nb)
    IN  IF neighborCount > 0
        THEN Fr[i] + Quot(couplingStrength * CouplingSum(Ph, i, nb, Len(P)),
                          neighborCount)
        ELSE Fr[i]

PhaseDerivative(P, Ph, Fr, i) ==
    LET nb == { j \in 1..Len(P) :
                  j # i /\ DistanceSq(P[i], P[j]) < couplingRadius * couplingRadius }
        neighborCount == Cardinality(nb)
    IN  IF neighborCount > 0
        THEN Fr[i] + Quot(couplingStrength * CouplingSum(Ph, i, nb, Len(P)),
                          neighborCount)
        ELSE Fr[i]

\* The wrap without its first loop.
WrapPhaseLowerOnly(ph) ==
    IF ph < 0 THEN ph + TwoPi ELSE ph

RECURSIVE WrapPhase(_)
\* The two while loops that keep the phase in range.
WrapPhase(ph) ==
    IF ph > TwoPi THEN WrapPhase(ph - TwoPi)
    ELSE IF ph < 0 THEN WrapPhase(ph + TwoPi)
    ELSE ph

NextPhase(P, Ph, Fr, i, dt) ==
    WrapPhase(Ph[i] + Quot(PhaseDerivative(P, Ph, Fr, i) * dt, Scale))

\* updateKuramoto with one loop: each phase is advanced as soon as its
\* derivative is known, and the fireflies after it read the new value.
updateKuramotoInPlace(P, Ph, Fr, dt) ==
    LET after[i \in 0..Len(P)] ==
            IF i = 0 THEN Ph
            ELSE [after[i - 1] EXCEPT ![i] = NextPhase(P, after[i - 1], Fr, i, dt)]
    IN  after[Len(P)]

\* The first loop computes every derivative from the phases as the call
\* found them; the second loop then advances the phases.
updateKuramoto(P, Ph, Fr, dt) ==
    [i \in 1..Len(P) |-> NextPhase(P, Ph, Fr, i, dt)]

\* The brightness without the test against the threshold.
BrightnessNoThreshold(ph) ==
    minBrightness
      + Quot(Quot((Sin(ph) - brightnessThreshold) * Scale, Scale - brightnessThreshold)
               * (maxBrightness - minBrightness), Scale)

Brightness(ph) ==
    LET sinPhase == Sin(ph)
        normalized == Quot((sinPhase - brightnessThreshold) * Scale,
                           Scale - brightnessThreshold)
    IN  IF sinPhase > brightnessThreshold
        THEN minBrightness + Quot(normalized * (maxBrightness - minBrightness), Scale)
        ELSE minBrightness

BrightnessFactor(b) ==
    Quot((b - minBrightness) * Scale, maxBrightness - minBrightness)

isFireflyOutsideJar(pos) ==
    \/ pos[1] * pos[1] + pos[3] * pos[3] > jarRadius * jarRadius
    \/ pos[2] > jarHeight \div 2

\* What the call writes into the material, the glow sprite and the light.
CoreOpacity(pos, bf) ==
    IF isFireflyOutsideJar(pos) THEN 700 + Quot(bf * 300, Scale)
    ELSE 850 + Quot(bf * 150, Scale)
GlowOpacity(pos, bf) ==
    IF isFireflyOutsideJar(pos) THEN 300 + Quot(bf * 500, Scale)
    ELSE 200 + Quot(bf * 400, Scale)
GlowScale(pos, bf) ==
    IF isFireflyOutsideJar(pos) THEN 250 + Quot(bf * 350, Scale)
    ELSE 200 + Quot(bf * 250, Scale)
LightIntensity(pos, bf) ==
    IF isFireflyOutsideJar(pos) THEN 150 + Quot(bf * 200, Scale)
    ELSE 100 + Quot(bf * 150, Scale)

(***************************************************************************)
(* Creation and removal of fireflies.                                      *)
(***************************************************************************)
\* Math.random(), in thousandths: a number in [0, 1).
RandomDraws == {0, 999}
\* The same for the angle, with the eighth, quarter, half and three quarter
\* turns.
AngleDraws == {0, 125, 250, 500, 750, 999}

\* The eight draws of one pass of the creation loop.
CreationDraws ==
    [angle : AngleDraws, radius : RandomDraws, height : RandomDraws,
     vx : RandomDraws, vy : RandomDraws, vz : RandomDraws,
     phase : RandomDraws, frequency : RandomDraws]

\* The firefly without the factor 0.8 on the radius.
createFireflyFullRadius(r) ==
    LET angle == Quot(r.angle * TwoPi, Scale)
        radius == Quot(r.radius * jarRadius, Scale)
        height == Quot(Quot((r.height - 500) * jarHeight, Scale) * 8, 10)
        Component(x) == Quot((x - 500) * 50, Scale)
    IN  [position |-> << Quot(Cos(angle) * radius, Scale), height,
                         Quot(Sin(angle) * radius, Scale) >>,
         velocity |-> << Component(r.vx), Component(r.vy), Component(r.vz) >>,
         phase |-> Quot(r.phase * TwoPi, Scale),
         frequency |-> baseFrequency
                         + Quot((r.frequency - 500) * 2 * frequencyVariance, Scale)]

\* The firefly one pass of the creation loop makes of its draws r; the loop
\* of resetSimulation is the same code.
createFirefly(r) ==
    LET angle == Quot(r.angle * TwoPi, Scale)
        radius == Quot(Quot(r.radius * jarRadius, Scale) * 8, 10)
        height == Quot(Quot((r.height - 500) * jarHeight, Scale) * 8, 10)
        Component(x) == Quot((x - 500) * 50, Scale)
    IN  [position |-> << Quot(Cos(angle) * radius, Scale), height,
                         Quot(Sin(angle) * radius, Scale) >>,
         velocity |-> << Component(r.vx), Component(r.vy), Component(r.vz) >>,
         phase |-> Quot(r.phase * TwoPi, Scale),
         frequency |-> baseFrequency
                         + Quot((r.frequency - 500) * 2 * frequencyVariance, Scale)]

\* The eight arrays after the creation loop has pushed the fireflies drawn
\* in s (a sequence of samples).  Firefly i gets the objects numbered i.
CreateFireflies(s) ==
    [fireflies |-> [i \in 1..Len(s) |-> [id |-> i, position |-> s[i].position]],
     fireflyVelocities |-> [i \in 1..Len(s) |-> s[i].velocity],
     fireflyPositions |-> [i \in 1..Len(s) |-> s[i].position],
     fireflyMaterials |-> [i \in 1..Len(s) |-> [id |-> i, opacity |-> Scale]],
     fireflyPhases |-> [i \in 1..Len(s) |-> s[i].phase],
     fireflyFrequencies |-> [i \in 1..Len(s) |-> s[i].frequency],
     fireflyGlowSprites |-> [i \in 1..Len(s) |->
                               [id |-> i, opacity |-> Scale, scale |-> 500]],
     fireflyPointLights |-> [i \in 1..Len(s) |->
                               IF i <= LIGHTS_COUNT
                               THEN [id |-> i, intensity |-> 300]
                               ELSE NoLight]]

\* array.splice(i, 1).
Splice(a, i) == SubSeq(a, 1, i - 1) \o SubSeq(a, i + 1, Len(a))

\* The splices without the one of fireflyPointLights.
RemoveFireflyKeepLight(A, i) ==
    [fireflies |-> Splice(A.fireflies, i),
     fireflyVelocities |-> Splice(A.fireflyVelocities, i),
     fireflyPositions |-> Splice(A.fireflyPositions, i),
     fireflyMaterials |-> Splice(A.fireflyMaterials, i),
     fireflyPhases |-> Splice(A.fireflyPhases, i),
     fireflyFrequencies |-> Splice(A.fireflyFrequencies, i),
     fireflyGlowSprites |-> Splice(A.fireflyGlowSprites, i),
     fireflyPointLights |-> A.fireflyPointLights]

\* The splices without the one of fireflyFrequencies.
RemoveFireflyKeepFrequency(A, i) ==
    [fireflies |-> Splice(A.fireflies, i),
     fireflyVelocities |-> Splice(A.fireflyVelocities, i),
     fireflyPositions |-> Splice(A.fireflyPositions, i),
     fireflyMaterials |-> Splice(A.fireflyMaterials, i),
     fireflyPhases |-> Splice(A.fireflyPhases, i),
     fireflyFrequencies |-> A.fireflyFrequencies,
     fireflyGlowSprites |-> Splice(A.fireflyGlowSprites, i),
     fireflyPointLights |-> Splice(A.fireflyPointLights, i)]

\* The eight splices that remove firefly i.
RemoveFirefly(A, i) ==
    [fireflies |-> Splice(A.fireflies, i),
     fireflyVelocities |-> Splice(A.fireflyVelocities, i),
     fireflyPositions |-> Splice(A.fireflyPositions, i),
     fireflyMaterials |-> Splice(A.fireflyMaterials, i),
     fireflyPhases |-> Splice(A.fireflyPhases, i),
     fireflyFrequencies |-> Splice(A.fireflyFrequencies, i),
     fireflyGlowSprites |-> Splice(A.fireflyGlowSprites, i),
     fireflyPointLights |-> Splice(A.fireflyPointLights, i)]

\* Whether the camera at cam catches a firefly at pos.
IsCaught(cam, pos) ==
    LET catchRadius == IF isFireflyOutsideJar(pos)
                       THEN FIREFLY_CATCH_RADIUS_OUTSIDE
                       ELSE FIREFLY_CATCH_RADIUS_INSIDE
    IN  DistanceSq(cam, pos) < catchRadius * catchRadius

RECURSIVE CollisionLoopCountOnce(_, _, _, _)
\* The loop with the counter set as caughtAny is: one catch or several
\* count as one.
CollisionLoopCountOnce(A, cam, i, c) ==
    IF i < 1 THEN [arrays |-> A, caught |-> c]
    ELSE IF IsCaught(cam, A.fireflies[i].position)
         THEN CollisionLoopCountOnce(RemoveFirefly(A, i), cam, i - 1, 1)
         ELSE CollisionLoopCountOnce(A, cam, i - 1, c)

RECURSIVE CollisionLoopSkipAfterCatch(_, _, _, _)
\* The loop with the index moved once more after a removal: the firefly
\* next to a caught one is not tested.
CollisionLoopSkipAfterCatch(A, cam, i, c) ==
    IF i < 1 THEN [arrays |-> A, caught |-> c]
    ELSE IF IsCaught(cam, A.fireflies[i].position)
         THEN CollisionLoopSkipAfterCatch(RemoveFirefly(A, i), cam, i - 2, c + 1)
         ELSE CollisionLoopSkipAfterCatch(A, cam, i - 1, c)

RECURSIVE CollisionLoop(_, _, _, _)
\* The backward loop of checkFireflyCollisions from index i down; c counts
\* the catches.
CollisionLoop(A, cam, i, c) ==
    IF i < 1 THEN [arrays |-> A, caught |-> c]
    ELSE IF IsCaught(cam, A.fireflies[i].position)
         THEN CollisionLoop(RemoveFirefly(A, i), cam, i - 1, c + 1)
         ELSE CollisionLoop(A, cam, i - 1, c)

checkFireflyCollisions(A, cam) == CollisionLoop(A, cam, Len(A.fireflies), 0)

\* The arrays of the current state, as one record.
Arrays ==
    [fireflies |-> fireflies, fireflyVelocities |-> fireflyVelocities,
     fireflyPositions |-> fireflyPositions, fireflyMaterials |-> fireflyMaterials,
     fireflyPhases |-> fireflyPhases, fireflyFrequencies |-> fireflyFrequencies,
     fireflyGlowSprites |-> fireflyGlowSprites,
     fireflyPointLights |-> fireflyPointLights]

\* The arrays of the next state are those of the record A.
SetArrays(A) ==
    /\ fireflies' = A.fireflies
    /\ fireflyVelocities' = A.fireflyVelocities
    /\ fireflyPositions' = A.fireflyPositions
    /\ fireflyMaterials' = A.fireflyMaterials
    /\ fireflyPhases' = A.fireflyPhases
    /\ fireflyFrequencies' = A.fireflyFrequencies
    /\ fireflyGlowSprites' = A.fireflyGlowSprites
    /\ fireflyPointLights' = A.fireflyPointLights

\* The positions of the fireflies, as an array.
Positions(F) == [i \in 1..Len(F) |-> F[i].position]

(***************************************************************************)
(* The state after the script has run.                                     *)
(***************************************************************************)
Init ==
    /\ \E s \in [1..FIREFLY_COUNT -> SpawnSamples] : 
          /\ fireflies = CreateFireflies(s).fireflies
          /\ fireflyVelocities = CreateFireflies(s).fireflyVelocities
          /\ fireflyPositions = CreateFireflies(s).fireflyPositions
          /\ fireflyMaterials = CreateFireflies(s).fireflyMaterials
          /\ fireflyPhases = CreateFireflies(s).fireflyPhases
          /\ fireflyFrequencies = CreateFireflies(s).fireflyFrequencies
          /\ fireflyGlowSprites = CreateFireflies(s).fireflyGlowSprites
          /\ fireflyPointLights = CreateFireflies(s).fireflyPointLights
    /\ jarOpen = FALSE
    /\ lidRotation = 0
    /\ pokePosition = NoPoke
    /\ pokeTime = 0
    /\ isDragging = FALSE
    /\ hasDragged = FALSE
    /\ previousMouse = <<0, 0>>
    /\ dragStart = <<0, 0>>
    /\ cameraEuler = [x |-> -310, y |-> -HalfPi]
    /\ cameraPosition = <<-5000, 1600, 0>>
    /\ keysPressed = [k \in MoveKeys |-> FALSE]
    /\ bugsCaught = 0
    /\ tongueState = "hidden"
    /\ tongueProgress = 0
    /\ tongueHoldTimer = 0
    /\ tongueVisible = FALSE
    /\ pc = "idle"
    /\ deltaTime = 0
    /\ boidsLocals = <<>>
    /\ brightness = <<>>
    /\ intersects = NoPoke
    /\ ticks = 0
    /\ events = 0
    /\ resets = 0
    /\ hitSinceBoids = FALSE

\* The state between two frames in the middle of a run: the jar has been
\* opened, fireflies have left it, and the jar is open still or closed again.
\* fireflyPositions keeps the positions of the creation, which nothing reads.
\* One frame and one input event of the exploration are counted as spent.
InitRun ==
    /\ \E s \in [1..FIREFLY_COUNT -> RunSamples] : 
          /\ fireflies = CreateFireflies(s).fireflies
          /\ fireflyVelocities = CreateFireflies(s).fireflyVelocities
          /\ fireflyPositions = [i \in 1..FIREFLY_COUNT |-> <<0, 1300, 0>>]
          /\ fireflyMaterials = CreateFireflies(s).fireflyMaterials
          /\ fireflyPhases = CreateFireflies(s).fireflyPhases
          /\ fireflyFrequencies = CreateFireflies(s).fireflyFrequencies
          /\ fireflyGlowSprites = CreateFireflies(s).fireflyGlowSprites
          /\ fireflyPointLights = CreateFireflies(s).fireflyPointLights
    /\ jarOpen \in BOOLEAN
    /\ lidRotation = IF jarOpen THEN LID_OPEN_ANGLE ELSE 0
    /\ pokePosition = NoPoke
    /\ pokeTime = 0
    /\ isDragging = FALSE
    /\ hasDragged = FALSE
    /\ previousMouse = <<0, 0>>
    /\ dragStart = <<0, 0>>
    /\ cameraEuler = [x |-> -310, y |-> -HalfPi]
    /\ cameraPosition = <<-5000, 1600, 0>>
    /\ keysPressed = [k \in MoveKeys |-> FALSE]
    /\ bugsCaught = 0
    /\ tongueState = "hidden"
    /\ tongueProgress = 0
    /\ tongueHoldTimer = 0
    /\ tongueVisible = FALSE
    /\ pc = "idle"
    /\ deltaTime = 0
    /\ boidsLocals = <<>>
    /\ brightness = <<>>
    /\ intersects = NoPoke
    /\ ticks = 1
    /\ events = 1
    /\ resets = 0
    /\ hitSinceBoids = FALSE

(***************************************************************************)
(* Input handlers.  The browser runs a handler between two frames, never   *)
(* inside one.                                                             *)
(***************************************************************************)
\* An input event, while fewer than max have been explored.
Input(max, Handler) ==
    /\ events < max
    /\ events' = events + 1
    /\ Handler

\* resetSimulation without the clearing of the arrays: the new fireflies are
\* pushed behind the old ones.
resetSimulationNoClear(s) ==
    /\ jarOpen' = FALSE
    /\ lidRotation' = 0
    /\ bugsCaught' = 0
    /\ SetArrays([a \in DOMAIN Arrays |-> Arrays[a] \o CreateFireflies(s)[a]])

\* resetSimulation, with the fireflies drawn in s.
resetSimulation(s) ==
    /\ jarOpen' = FALSE
    /\ lidRotation' = 0
    /\ bugsCaught' = 0
    /\ SetArrays(CreateFireflies(s))

OnKeyDown(key) ==
    /\ pc = "idle"
    /\ IF key \in {"q", "e"}
       THEN /\ keysPressed' = [keysPressed EXCEPT ![key] = TRUE]
            /\ UNCHANGED <<arrayVars, jarVars, bugsCaught>>
       ELSE /\ keysPressed' = IF key \in MoveKeys
                              THEN [keysPressed EXCEPT ![key] = TRUE]
                              ELSE keysPressed
            /\ CASE key = " " -> /\ jarOpen' = ~jarOpen
                                 /\ UNCHANGED <<arrayVars, lidRotation, bugsCaught>>
                 [] key = "r" -> \E s \in [1..FIREFLY_COUNT -> SpawnSamples] :
                                    resetSimulation(s)
                 [] OTHER -> UNCHANGED <<arrayVars, jarVars, bugsCaught>>
    /\ resets' = IF key = "r" THEN resets + 1 ELSE 0
    /\ UNCHANGED <<pokeVars, mouseVars, cameraVars, tongueVars, frameVars,
                   localVars, intersects, ticks, hitSinceBoids>>

OnKeyUp(key) ==
    /\ pc = "idle"
    /\ keysPressed' = IF key \in MoveKeys
                      THEN [keysPressed EXCEPT ![key] = FALSE]
                      ELSE keysPressed
    /\ resets' = 0
    /\ UNCHANGED <<arrayVars, jarVars, pokeVars, mouseVars, cameraVars,
                   bugsCaught, tongueVars, frameVars, localVars, intersects,
                   ticks, hitSinceBoids>>

OnMouseDown(m) ==
    /\ pc = "idle"
    /\ isDragging' = TRUE
    /\ hasDragged' = FALSE
    /\ previousMouse' = m
    /\ dragStart' = m
    /\ resets' = 0
    /\ UNCHANGED <<arrayVars, jarVars, pokeVars, cameraVars, keysPressed,
                   bugsCaught, tongueVars, frameVars, localVars, intersects,
                   ticks, hitSinceBoids>>

\* Math.max(-pi/2, Math.min(pi/2, x)).
ClampPitch(x) ==
    IF x > HalfPi THEN HalfPi ELSE IF x < -HalfPi THEN -HalfPi ELSE x

\* onMouseMove with hasDragged taken from this move alone: a pointer back
\* at the press point is no drag any more.
OnMouseMoveThisMoveOnly(m) ==
    /\ pc = "idle"
    /\ IF ~isDragging
       THEN UNCHANGED <<mouseVars, cameraEuler>>
       ELSE /\ hasDragged' = (\/ Abs(m[1] - dragStart[1]) > DRAG_THRESHOLD
                              \/ Abs(m[2] - dragStart[2]) > DRAG_THRESHOLD)
            /\ cameraEuler' =
                 [x |-> ClampPitch(cameraEuler.x
                                     - (m[2] - previousMouse[2]) * MOUSE_SENSITIVITY),
                  y |-> cameraEuler.y
                          - (m[1] - previousMouse[1]) * MOUSE_SENSITIVITY]
            /\ previousMouse' = m
            /\ UNCHANGED <<isDragging, dragStart>>
    /\ resets' = 0
    /\ UNCHANGED <<arrayVars, jarVars, pokeVars, cameraPosition, keysPressed,
                   bugsCaught, tongueVars, frameVars, localVars, intersects,
                   ticks, hitSinceBoids>>

OnMouseMove(m) ==
    /\ pc = "idle"
    /\ IF ~isDragging
       THEN UNCHANGED <<mouseVars, cameraEuler>>
       ELSE /\ hasDragged' = (\/ hasDragged
                              \/ Abs(m[1] - dragStart[1]) > DRAG_THRESHOLD
                              \/ Abs(m[2] - dragStart[2]) > DRAG_THRESHOLD)
            /\ cameraEuler' =
                 [x |-> ClampPitch(cameraEuler.x
                                     - (m[2] - previousMouse[2]) * MOUSE_SENSITIVITY),
                  y |-> cameraEuler.y
                          - (m[1] - previousMouse[1]) * MOUSE_SENSITIVITY]
            /\ previousMouse' = m
            /\ UNCHANGED <<isDragging, dragStart>>
    /\ resets' = 0
    /\ UNCHANGED <<arrayVars, jarVars, pokeVars, cameraPosition, keysPressed,
                   bugsCaught, tongueVars, frameVars, localVars, intersects,
                   ticks, hitSinceBoids>>

\* onMouseClick: hit is the first intersection of the ray with the jar body,
\* NoPoke when the ray misses it.
onMouseClick(hit) ==
    /\ intersects' = hit
    /\ hitSinceBoids' = (hitSinceBoids \/ hit # NoPoke)
    /\ IF hit # NoPoke
       THEN pokePosition' = hit /\ pokeTime' = 0
       ELSE UNCHANGED pokeVars

OnMouseUp(hit) ==
    /\ pc = "idle"
    /\ IF ~hasDragged /\ isDragging
       THEN onMouseClick(hit)
       ELSE UNCHANGED <<pokeVars, intersects, hitSinceBoids>>
    /\ isDragging' = FALSE
    /\ hasDragged' = FALSE
    /\ resets' = 0
    /\ UNCHANGED <<arrayVars, jarVars, previousMouse, dragStart, cameraVars,
                   keysPressed, bugsCaught, tongueVars, frameVars, localVars,
                   ticks>>

(***************************************************************************)
(* animate(): one frame, in the order of its calls.                        *)
(***************************************************************************)
\* updateCameraMovement: the camera after deltaTime dt with the keys held.
updateCameraMovement(cam, euler, keys, dt) ==
    LET moveDistance == CAMERA_MOVE_SPEED * dt
        forward == <<-Sin(euler.y), 0, -Cos(euler.y)>>
        right == <<Cos(euler.y), 0, -Sin(euler.y)>>
        c1 == IF keys["w"] THEN VAdd(cam, VScale(forward, moveDistance, Scale)) ELSE cam
        c2 == IF keys["s"] THEN VAdd(c1, VScale(forward, -moveDistance, Scale)) ELSE c1
        c3 == IF keys["d"] THEN VAdd(c2, VScale(right, moveDistance, Scale)) ELSE c2
        c4 == IF keys["a"] THEN VAdd(c3, VScale(right, -moveDistance, Scale)) ELSE c3
        c5 == IF keys["q"] THEN <<c4[1], c4[2] + moveDistance, c4[3]>> ELSE c4
    IN  IF keys["e"] THEN <<c5[1], c5[2] - moveDistance, c5[3]>> ELSE c5

\* triggerTongueAnimation without the test of the state: every catch starts
\* the animation anew.
triggerTongueAnimationAlways ==
    /\ tongueState' = "extending"
    /\ tongueProgress' = 0
    /\ tongueVisible' = TRUE
    /\ UNCHANGED tongueHoldTimer

\* triggerTongueAnimation.
triggerTongueAnimation ==
    IF tongueState = "hidden"
    THEN /\ tongueState' = "extending"
         /\ tongueProgress' = 0
         /\ tongueVisible' = TRUE
         /\ UNCHANGED tongueHoldTimer
    ELSE UNCHANGED tongueVars

\* updateTongueAnimation.
updateTongueAnimation(dt) ==
    CASE tongueState = "extending" ->
           /\ tongueProgress' =
                IF tongueProgress + TONGUE_EXTEND_SPEED * dt >= Scale THEN Scale
                ELSE tongueProgress + TONGUE_EXTEND_SPEED * dt
           /\ tongueState' =
                IF tongueProgress + TONGUE_EXTEND_SPEED * dt >= Scale THEN "holding"
                ELSE "extending"
           /\ tongueHoldTimer' =
                IF tongueProgress + TONGUE_EXTEND_SPEED * dt >= Scale THEN 0
                ELSE tongueHoldTimer
           /\ UNCHANGED tongueVisible
      [] tongueState = "holding" ->
           /\ tongueHoldTimer' = tongueHoldTimer + dt
           /\ tongueState' =
                IF tongueHoldTimer + dt >= TONGUE_HOLD_TIME THEN "retracting"
                ELSE "holding"
           /\ UNCHANGED <<tongueProgress, tongueVisible>>
      [] tongueState = "retracting" ->
           /\ tongueProgress' =
                IF tongueProgress - TONGUE_RETRACT_SPEED * dt <= 0 THEN 0
                ELSE tongueProgress - TONGUE_RETRACT_SPEED * dt
           /\ tongueState' =
                IF tongueProgress - TONGUE_RETRACT_SPEED * dt <= 0 THEN "hidden"
                ELSE "retracting"
           /\ tongueVisible' =
                IF tongueProgress - TONGUE_RETRACT_SPEED * dt <= 0 THEN FALSE
                ELSE tongueVisible
           /\ UNCHANGED tongueHoldTimer
      [] OTHER -> UNCHANGED tongueVars

\* The lid animation of animate().
LidAfter(open, lid, dt) ==
    IF open /\ lid < LID_OPEN_ANGLE
    THEN IF lid + dt * LidSpeed > LID_OPEN_ANGLE THEN LID_OPEN_ANGLE
         ELSE lid + dt * LidSpeed
    ELSE IF ~open /\ lid > 0
    THEN IF lid - dt * LidSpeed < 0 THEN 0 ELSE lid - dt * LidSpeed
    ELSE lid

\* updatePokeEffect with >= in place of >.
updatePokeEffectAtDuration(poke, ptime, dt) ==
    IF poke # NoPoke
    THEN IF ptime + dt >= POKE_DURATION
         THEN [pokePosition |-> NoPoke, pokeTime |-> 0]
         ELSE [pokePosition |-> poke, pokeTime |-> ptime + dt]
    ELSE [pokePosition |-> poke, pokeTime |-> ptime]

\* updatePokeEffect without the test against POKE_DURATION: the timer runs
\* on and the poke stays.
updatePokeEffectNoExpiry(poke, ptime, dt) ==
    IF poke # NoPoke
    THEN [pokePosition |-> poke, pokeTime |-> ptime + dt]
    ELSE [pokePosition |-> poke, pokeTime |-> ptime]

\* updatePokeEffect: the poke after deltaTime dt.
updatePokeEffect(poke, ptime, dt) ==
    IF poke # NoPoke
    THEN IF ptime + dt > POKE_DURATION
         THEN [pokePosition |-> NoPoke, pokeTime |-> 0]
         ELSE [pokePosition |-> poke, pokeTime |-> ptime + dt]
    ELSE [pokePosition |-> poke, pokeTime |-> ptime]

\* The frame starts: clock.getDelta(), updateCameraMovement and
\* checkFireflyCollisions.
Animate(dt) ==
    /\ pc = "idle"
    /\ ticks' = ticks + 1
    /\ resets' = 0
    /\ deltaTime' = dt
    /\ cameraPosition' = updateCameraMovement(cameraPosition, cameraEuler, keysPressed, dt)
    /\ LET Collisions(r) ==
               /\ SetArrays(r.arrays)
               /\ bugsCaught' = bugsCaught + r.caught
               /\ IF r.caught > 0 THEN triggerTongueAnimation
                  ELSE UNCHANGED tongueVars
       IN  Collisions(checkFireflyCollisions(Arrays, cameraPosition'))
    /\ pc' = "updateTongueAnimation"
    /\ UNCHANGED <<jarVars, pokeVars, mouseVars, cameraEuler, keysPressed,
                   localVars, intersects, events, hitSinceBoids>>

\* A frame, while frames are explored.
Tick(dt) ==
    /\ ticks < MaxTicks
    /\ Animate(dt)

\* A frame, while frames are explored or a poke is running: the frames go
\* on until the poke has run out.
PokeTick(dt) ==
    /\ ticks < MaxTicks \/ pokePosition # NoPoke
    /\ Animate(dt)

\* updateTongueAnimation, the lid animation and updatePokeEffect.
AnimateEffects ==
    /\ pc = "updateTongueAnimation"
    /\ updateTongueAnimation(deltaTime)
    /\ lidRotation' = LidAfter(jarOpen, lidRotation, deltaTime)
    /\ pokePosition' = updatePokeEffect(pokePosition, pokeTime, deltaTime).pokePosition
    /\ pokeTime' = updatePokeEffect(pokePosition, pokeTime, deltaTime).pokeTime
    /\ pc' = "updateBoids"
    /\ UNCHANGED <<arrayVars, jarOpen, mouseVars, cameraVars, keysPressed,
                   bugsCaught, deltaTime, localVars, intersects, historyVars>>

\* The random vectors the wander() calls of one updateBoids draw.  With the
\* jar closed the wander force is computed and dropped.
NoiseDraws ==
    IF jarOpen THEN [1..Len(fireflies) -> NoiseSamples]
    ELSE {[i \in 1..Len(fireflies) |-> Zero3]}

\* updateBoids with the lid's angle in place of jarOpen: the jar counts as
\* open while the lid is up.
UpdateBoidsByLid ==
    /\ pc = "updateBoids"
    /\ \E noise \in NoiseDraws :
         LET Write(r) ==
                 /\ fireflies' = [i \in 1..Len(fireflies) |->
                                    [fireflies[i] EXCEPT !.position = r.P[i]]]
                 /\ fireflyVelocities' = r.V
                 /\ boidsLocals' = r.L
         IN  Write(updateBoids(Positions(fireflies), fireflyVelocities, noise,
                               lidRotation > 0, pokePosition, pokeTime))
    /\ pc' = "updateKuramoto"
    /\ hitSinceBoids' = FALSE
    /\ UNCHANGED <<fireflyPositions, fireflyMaterials, fireflyPhases,
                   fireflyFrequencies, fireflyGlowSprites, fireflyPointLights,
                   jarVars, pokeVars, mouseVars, cameraVars, keysPressed,
                   bugsCaught, tongueVars, deltaTime, brightness, intersects,
                   ticks, events, resets>>

UpdateBoids ==
    /\ pc = "updateBoids"
    /\ \E noise \in NoiseDraws :
         LET Write(r) ==
                 /\ fireflies' = [i \in 1..Len(fireflies) |->
                                    [fireflies[i] EXCEPT !.position = r.P[i]]]
                 /\ fireflyVelocities' = r.V
                 /\ boidsLocals' = r.L
         IN  Write(updateBoids(Positions(fireflies), fireflyVelocities, noise,
                               jarOpen, pokePosition, pokeTime))
    /\ pc' = "updateKuramoto"
    /\ hitSinceBoids' = FALSE
    /\ UNCHANGED <<fireflyPositions, fireflyMaterials, fireflyPhases,
                   fireflyFrequencies, fireflyGlowSprites, fireflyPointLights,
                   jarVars, pokeVars, mouseVars, cameraVars, keysPressed,
                   bugsCaught, tongueVars, deltaTime, brightness, intersects,
                   ticks, events, resets>>

UpdateKuramoto ==
    /\ pc = "updateKuramoto"
    /\ LET P == Positions(fireflies)
           n == Len(fireflies)
           \* The second loop, with the new phases ph and their brightness b.
           Show(ph, b) ==
               /\ fireflyPhases' = ph
               /\ brightness' = b
               /\ fireflyMaterials' = [i \in 1..n |->
                    [fireflyMaterials[i] EXCEPT
                       !.opacity = CoreOpacity(P[i], BrightnessFactor(b[i]))]]
               /\ fireflyGlowSprites' = [i \in 1..n |->
                    [fireflyGlowSprites[i] EXCEPT
                       !.opacity = GlowOpacity(P[i], BrightnessFactor(b[i])),
                       !.scale = GlowScale(P[i], BrightnessFactor(b[i]))]]
               /\ fireflyPointLights' = [i \in 1..n |->
                    IF fireflyPointLights[i] # NoLight
                    THEN [fireflyPointLights[i] EXCEPT
                            !.intensity = LightIntensity(P[i], BrightnessFactor(b[i]))]
                    ELSE NoLight]
           Light(ph) == Show(ph, [i \in 1..n |-> Brightness(ph[i])])
       IN  Light(updateKuramoto(P, fireflyPhases, fireflyFrequencies, deltaTime))
    /\ pc' = "idle"
    /\ UNCHANGED <<fireflies, fireflyVelocities, fireflyPositions,
                   fireflyFrequencies, jarVars, pokeVars, mouseVars, cameraVars,
                   keysPressed, bugsCaught, tongueVars, deltaTime, boidsLocals,
                   intersects, historyVars>>

(***************************************************************************)
(* The program.                                                            *)
(***************************************************************************)
Next ==
    \/ \E key \in Keys : Input(MaxEvents, OnKeyDown(key))
    \/ \E key \in Keys : Input(MaxEvents, OnKeyUp(key))
    \/ \E m \in MousePoints : Input(MaxEvents, OnMouseDown(m))
    \/ \E m \in MousePoints : Input(MaxEvents, OnMouseMove(m))
    \/ \E hit \in PokePoints \cup {NoPoke} : Input(MaxEvents, OnMouseUp(hit))
    \/ \E dt \in DeltaTimes : Tick(dt)
    \/ AnimateEffects
    \/ UpdateBoids
    \/ UpdateKuramoto

Spec == Init /\ [][Next]_vars

\* One step of a frame.
Frame ==
    \/ \E dt \in PokeDeltaTimes : PokeTick(dt)
    \/ AnimateEffects
    \/ UpdateBoids
    \/ UpdateKuramoto

\* The program with the pointer as its only input.
NextPoke ==
    \/ \E m \in MousePoints : Input(MaxPointerEvents, OnMouseDown(m))
    \/ \E hit \in PokePoints \cup {NoPoke} : Input(MaxPointerEvents, OnMouseUp(hit))
    \/ Frame

\* renderer.setAnimationLoop(animate): the position in animate() advances.
\* The browser keeps calling animate, and a frame that has begun runs to its
\* end; each of these steps is a step of Frame.
AnimationLoop ==
    \/ /\ pc = "idle"
       /\ ticks < MaxTicks \/ pokePosition # NoPoke
       /\ pc' = "updateTongueAnimation"
    \/ pc = "updateTongueAnimation" /\ pc' = "updateBoids"
    \/ pc = "updateBoids" /\ pc' = "updateKuramoto"
    \/ pc = "updateKuramoto" /\ pc' = "idle"

PokeSpec == Init /\ [][NextPoke]_vars /\ WF_pc(AnimationLoop)

\* A frame, while the frames of a catch are explored.
CatchTick(dt) ==
    /\ ticks < MaxCatchTicks
    /\ Animate(dt)

\* The program with the forward key as its only input: the camera walks
\* into the fireflies and the frames go on while the tongue moves.
NextCatch ==
    \/ Input(MaxCatchEvents, OnKeyDown("w"))
    \/ Input(MaxCatchEvents, OnKeyUp("w"))
    \/ \E dt \in DeltaTimes : CatchTick(dt)
    \/ AnimateEffects
    \/ UpdateBoids
    \/ UpdateKuramoto

CatchSpec == Init /\ [][NextCatch]_vars

\* The pointer between two frames: presses, moves and releases.
NextDrag ==
    \/ \E m \in MousePoints : Input(MaxDragEvents, OnMouseDown(m))
    \/ \E m \in MousePoints : Input(MaxDragEvents, OnMouseMove(m))
    \/ \E hit \in PokePoints \cup {NoPoke} : Input(MaxDragEvents, OnMouseUp(hit))

DragSpec == Init /\ [][NextDrag]_vars

\* The program from the middle of a run.
RunSpec == InitRun /\ [][Next]_vars

(***************************************************************************)
(* The functions called on their own.  applyJarBoundary, separation and    *)
(* getRepulsion read the arrays, the jar and the poke; here they are       *)
(* called on arrays, a jar and a poke drawn from samples, each call        *)
(* leaving its result in the state.                                        *)
(***************************************************************************)
\* Fireflies as a caller can set them up: beyond the wall above the rim
\* (radius jarRadius + 1, height jarHeight/2 + 1), below the ground inside
\* and far outside the wall, just beyond the wall, beyond it with a purely
\* radial velocity, at rest close to each other, inside the jar, and on the
\* point a click can hit.
UnitSamples ==
    { [position |-> <<2800, 2750, 0>>, velocity |-> <<60, 30, 20>>,
       phase |-> 1000, frequency |-> 1500],
      [position |-> <<0, -2900, 0>>, velocity |-> <<0, -1000, 0>>,
       phase |-> 1000, frequency |-> 1500],
      [position |-> <<3000, -2900, 0>>, velocity |-> <<100, -1000, 50>>,
       phase |-> 1000, frequency |-> 1500],
      [position |-> <<1850, 500, 0>>, velocity |-> <<80, 10, 50>>,
       phase |-> 1000, frequency |-> 1500],
      [position |-> <<-1500, 1000, 2000>>, velocity |-> <<-30, 0, 40>>,
       phase |-> 1000, frequency |-> 1500],
      [position |-> <<0, 1300, 0>>, velocity |-> <<0, 0, 0>>,
       phase |-> 1000, frequency |-> 1500],
      [position |-> <<300, 1300, 0>>, velocity |-> <<0, 0, 0>>,
       phase |-> 1000, frequency |-> 1500],
      [position |-> <<-1400, 1399, 0>>, velocity |-> <<10, 20, -5>>,
       phase |-> 1000, frequency |-> 1500],
      [position |-> <<-2000, 900, 0>>, velocity |-> <<0, 0, 0>>,
       phase |-> 1000, frequency |-> 1500] }

\* The time by which pokeTime grows between two calls of getRepulsion.
UnitTimeSteps == {250, 500}

\* The state a caller sets up: one to FIREFLY_COUNT fireflies, the jar open
\* or closed, no poke or a poke that has just begun.
InitUnit ==
    /\ \E n \in 1..FIREFLY_COUNT : \E s \in [1..n -> UnitSamples] :
          /\ fireflies = CreateFireflies(s).fireflies
          /\ fireflyVelocities = CreateFireflies(s).fireflyVelocities
          /\ fireflyPositions = CreateFireflies(s).fireflyPositions
          /\ fireflyMaterials = CreateFireflies(s).fireflyMaterials
          /\ fireflyPhases = CreateFireflies(s).fireflyPhases
          /\ fireflyFrequencies = CreateFireflies(s).fireflyFrequencies
          /\ fireflyGlowSprites = CreateFireflies(s).fireflyGlowSprites
          /\ fireflyPointLights = CreateFireflies(s).fireflyPointLights
    /\ jarOpen \in BOOLEAN
    /\ lidRotation = IF jarOpen THEN LID_OPEN_ANGLE ELSE 0
    /\ pokePosition \in PokePoints \cup {NoPoke}
    /\ pokeTime = 0
    /\ isDragging = FALSE
    /\ hasDragged = FALSE
    /\ previousMouse = <<0, 0>>
    /\ dragStart = <<0, 0>>
    /\ cameraEuler = [x |-> -310, y |-> -HalfPi]
    /\ cameraPosition = <<-5000, 1600, 0>>
    /\ keysPressed = [k \in MoveKeys |-> FALSE]
    /\ bugsCaught = 0
    /\ tongueState = "hidden"
    /\ tongueProgress = 0
    /\ tongueHoldTimer = 0
    /\ tongueVisible = FALSE
    /\ pc = "idle"
    /\ deltaTime = 0
    /\ boidsLocals = <<>>
    /\ brightness = <<>>
    /\ intersects = NoPoke
    /\ ticks = 0
    /\ events = 0
    /\ resets = 0
    /\ hitSinceBoids = FALSE

\* applyJarBoundary(i), for every firefly i; the position and the velocity
\* each call found are kept.
CallApplyJarBoundary ==
    /\ pc = "idle"
    /\ LET B(i) == applyJarBoundary(fireflies[i].position, fireflyVelocities[i],
                                    jarOpen)
       IN  /\ fireflies' = [i \in 1..Len(fireflies) |->
                              [fireflies[i] EXCEPT !.position = B(i).position]]
           /\ fireflyVelocities' = [i \in 1..Len(fireflies) |-> B(i).velocity]
    /\ boidsLocals' = [i \in 1..Len(fireflies) |->
                         [position |-> fireflies[i].position,
                          velocity |-> fireflyVelocities[i]]]
    /\ pc' = "applyJarBoundary"
    /\ UNCHANGED <<fireflyPositions, fireflyMaterials, fireflyPhases,
                   fireflyFrequencies, fireflyGlowSprites, fireflyPointLights,
                   jarVars, pokeVars, mouseVars, cameraVars, keysPressed,
                   bugsCaught, tongueVars, deltaTime, brightness, intersects,
                   historyVars>>

\* separation(i, sepRadius), for every firefly i, on the same arrays.
CallSeparation ==
    /\ pc = "idle"
    /\ boidsLocals' = [i \in 1..Len(fireflies) |->
                         [sep |-> separation(Positions(fireflies),
                                             fireflyVelocities, i,
                                             IF jarOpen THEN OpenSeparationRadius
                                             ELSE separationDistance)]]
    /\ pc' = "separation"
    /\ UNCHANGED <<arrayVars, jarVars, pokeVars, mouseVars, cameraVars,
                   keysPressed, bugsCaught, tongueVars, deltaTime, brightness,
                   intersects, historyVars>>

\* getRepulsion(i), for every firefly i.
CallGetRepulsion ==
    /\ pc = "idle"
    /\ boidsLocals' = [i \in 1..Len(fireflies) |->
                         [rep |-> getRepulsion(Positions(fireflies), i,
                                               pokePosition, pokeTime)]]
    /\ pc' = "getRepulsion"
    /\ UNCHANGED <<arrayVars, jarVars, pokeVars, mouseVars, cameraVars,
                   keysPressed, bugsCaught, tongueVars, deltaTime, brightness,
                   intersects, historyVars>>

\* The poke is dt older and getRepulsion(i) is called again, the fireflies
\* where they were.
CallGetRepulsionLater(dt) ==
    /\ pc = "getRepulsion"
    /\ pokePosition # NoPoke
    /\ pokeTime + dt <= POKE_DURATION
    /\ pokeTime' = pokeTime + dt
    /\ boidsLocals' = [i \in 1..Len(fireflies) |->
                         [rep |-> getRepulsion(Positions(fireflies), i,
                                               pokePosition, pokeTime + dt)]]
    /\ UNCHANGED <<arrayVars, jarVars, pokePosition, mouseVars, cameraVars,
                   keysPressed, bugsCaught, tongueVars, frameVars, brightness,
                   intersects, historyVars>>

\* One pass of the creation loop on empty arrays, with the draws r.
CallCreateFirefly ==
    /\ pc = "idle"
    /\ \E r \in CreationDraws : SetArrays(CreateFireflies(<<createFirefly(r)>>))
    /\ pc' = "createFirefly"
    /\ UNCHANGED <<jarVars, pokeVars, mouseVars, cameraVars, keysPressed,
                   bugsCaught, tongueVars, deltaTime, localVars, intersects,
                   historyVars>>

NextUnit ==
    \/ CallApplyJarBoundary
    \/ CallSeparation
    \/ CallGetRepulsion
    \/ \E dt \in UnitTimeSteps : CallGetRepulsionLater(dt)
    \/ CallCreateFirefly

UnitSpec == InitUnit /\ [][NextUnit]_vars

(***************************************************************************)
(* Properties.                                                             *)
(***************************************************************************)
\* x^2 + z^2 of a position.
RadialSq(pos) == pos[1] * pos[1] + pos[3] * pos[3]

\* The step that runs updateBoids.
UpdateBoidsStep == pc = "updateBoids" /\ pc' = "updateKuramoto"

\* The jar's state decides the separation radius of a tick.
SeparationRadius == IF jarOpen THEN OpenSeparationRadius ELSE separationDistance

\* C1: in one updateBoids call, the separation, alignment, cohesion and
\* repulsion forces of every firefly are those computed from the positions
\* and velocities all fireflies had when the call began.
C1_ForcesFromSnapshot ==
    [][UpdateBoidsStep =>
         \A i \in 1..Len(fireflies) :
            /\ boidsLocals'[i].sep =
                  separation(Positions(fireflies), fireflyVelocities, i,
                             SeparationRadius)
            /\ boidsLocals'[i].ali =
                  alignment(Positions(fireflies), fireflyVelocities, i)
            /\ boidsLocals'[i].coh =
                  cohesion(Positions(fireflies), fireflyVelocities, i)
            /\ boidsLocals'[i].rep =
                  getRepulsion(Positions(fireflies), i, pokePosition, pokeTime)]_vars

\* C2: when updateBoids has run, the speed of every firefly is at most the
\* currentSpeedLimit computed for it in that call.
C2_SpeedWithinLimit ==
    pc = "updateKuramoto" =>
       \A i \in 1..Len(fireflies) :
          LengthSq(fireflyVelocities[i])
             <= boidsLocals[i].currentSpeedLimit * boidsLocals[i].currentSpeedLimit

\* A poke burst has raised the limit of a firefly above maxSpeed, and the
\* firefly is faster than maxSpeed.
C2_Witness ==
    /\ pc = "updateKuramoto"
    /\ \E i \in 1..Len(fireflies) :
          /\ boidsLocals[i].currentSpeedLimit > maxSpeed
          /\ LengthSq(fireflyVelocities[i]) > maxSpeed * maxSpeed

\* C3: at the end of a tick with the jar closed, every firefly is within
\* the jar radius and between the ground and the lid, up to the clamp offset.
C3_InsideClosedJar ==
    (pc = "updateKuramoto" /\ ~jarOpen) =>
       \A i \in 1..Len(fireflies) :
          /\ RadialSq(fireflies[i].position)
                <= (jarRadius + ClampOffset) * (jarRadius + ClampOffset)
          /\ fireflies[i].position[2] >= GROUND_LEVEL
          /\ fireflies[i].position[2] <= jarHeight \div 2 + ClampOffset

\* C4: when applyJarBoundary has finished for a firefly, the firefly is
\* beyond the jar radius only if the jar is open and the firefly is above the
\* rim; one found beyond the radius at or below the rim is back within it.
C4_EscapeOnlyThroughMouth ==
    pc = "updateKuramoto" =>
       \A i \in 1..Len(fireflies) :
          RadialSq(boidsLocals[i].boundaryPosition) > jarRadius * jarRadius
             => /\ jarOpen
                /\ boidsLocals[i].boundaryPosition[2] > jarHeight \div 2

\* With the jar open, a firefly was found beyond the jar radius at or below
\* the rim and applyJarBoundary has put it back; another one is beyond the
\* radius above the rim and stays there.
C4_Witness ==
    /\ pc = "updateKuramoto"
    /\ jarOpen
    /\ \E i \in 1..Len(fireflies) :
          /\ RadialSq(boidsLocals[i].position) > jarRadius * jarRadius
          /\ boidsLocals[i].position[2] <= jarHeight \div 2
          /\ RadialSq(boidsLocals[i].boundaryPosition) <= jarRadius * jarRadius
    /\ \E i \in 1..Len(fireflies) :
          /\ RadialSq(boidsLocals[i].boundaryPosition) > jarRadius * jarRadius
          /\ boidsLocals[i].boundaryPosition[2] > jarHeight \div 2

\* C5 as stated: every phase is at least 0 and below 2 pi.
C5_PhaseBelowTwoPi ==
    \A i \in 1..Len(fireflyPhases) :
       fireflyPhases[i] >= 0 /\ fireflyPhases[i] < TwoPi

\* C5, amended: after creation, after a reset and after every updateKuramoto
\* call every phase is at least 0 and at most 2 pi; 2 pi itself is kept.
C5_PhaseWithinTwoPi ==
    \A i \in 1..Len(fireflyPhases) :
       fireflyPhases[i] >= 0 /\ fireflyPhases[i] <= TwoPi

\* updateKuramoto has left a phase on 2 pi exactly.
C5_Witness ==
    /\ pc = "idle"
    /\ ticks > 0
    /\ \E i \in 1..Len(fireflyPhases) : fireflyPhases[i] = TwoPi

\* The step that runs updateKuramoto.
UpdateKuramotoStep == pc = "updateKuramoto" /\ pc' = "idle"

\* C6: the brightness updateKuramoto computes for a firefly is minBrightness
\* when the sine of its new phase is at most the threshold, and otherwise
\* the linear map of the excess onto minBrightness..maxBrightness; it lies
\* in that range, and the brightness factor in 0..1.
C6_BrightnessRange ==
    [][UpdateKuramotoStep =>
         \A i \in 1..Len(fireflies') :
            /\ brightness'[i] >= minBrightness
            /\ brightness'[i] <= maxBrightness
            /\ BrightnessFactor(brightness'[i]) >= 0
            /\ BrightnessFactor(brightness'[i]) <= Scale
            /\ Sin(fireflyPhases'[i]) <= brightnessThreshold
                  => brightness'[i] = minBrightness
            /\ Sin(fireflyPhases'[i]) > brightnessThreshold
                  => brightness'[i] =
                       minBrightness
                         + Quot(Quot((Sin(fireflyPhases'[i]) - brightnessThreshold)
                                       * Scale,
                                     Scale - brightnessThreshold)
                                  * (maxBrightness - minBrightness), Scale)]_vars

\* updateKuramoto has run: one firefly is dark (its sine is at most the
\* threshold) and one is brighter than the middle of the range.
C6_Witness ==
    /\ pc = "idle"
    /\ Len(brightness) = Len(fireflyPhases)
    /\ \E i \in 1..Len(brightness) :
          /\ Sin(fireflyPhases[i]) <= brightnessThreshold
          /\ brightness[i] = minBrightness
    /\ \E i \in 1..Len(brightness) :
          2 * brightness[i] > minBrightness + maxBrightness

\* C7: after resetSimulation, also after a second one in a row, every
\* per-firefly array has FIREFLY_COUNT entries and the jar is closed.
C7_ResetPopulation ==
    resets > 0 =>
       /\ \A a \in DOMAIN Arrays : Len(Arrays[a]) = FIREFLY_COUNT
       /\ ~jarOpen

\* Two resets in a row, after a capture (the tongue is still out).
C7_Witness ==
    /\ resets = 2
    /\ tongueState # "hidden"
    /\ Len(fireflies) = FIREFLY_COUNT

\* C8: after resetSimulation no poke is active.
C8_ResetClearsPoke ==
    resets > 0 => pokePosition = NoPoke /\ pokeTime = 0

\* The step that runs checkFireflyCollisions.
CollisionStep == pc = "idle" /\ pc' = "updateTongueAnimation"

\* C9: the per-firefly arrays always have the same length, and a capture
\* leaves every surviving firefly with the velocity, phase, frequency,
\* material, glow sprite and light it had.
C9_ArraysInStep ==
    /\ [](\A a \in DOMAIN Arrays : Len(Arrays[a]) = Len(fireflies))
    /\ [][CollisionStep =>
            /\ Len(fireflies') = Len(fireflies) - (bugsCaught' - bugsCaught)
            /\ \A j \in 1..Len(fireflies') :
                  \E o \in j..Len(fireflies) :
                     /\ fireflies'[j] = fireflies[o]
                     /\ fireflyVelocities'[j] = fireflyVelocities[o]
                     /\ fireflyPhases'[j] = fireflyPhases[o]
                     /\ fireflyFrequencies'[j] = fireflyFrequencies[o]
                     /\ fireflyMaterials'[j] = fireflyMaterials[o]
                     /\ fireflyGlowSprites'[j] = fireflyGlowSprites[o]
                     /\ fireflyPointLights'[j] = fireflyPointLights[o]]_vars

\* A capture has removed the first firefly, and the one behind it has
\* moved to index 1.
C9_Witness ==
    /\ pc = "updateTongueAnimation"
    /\ bugsCaught > 0
    /\ Len(fireflies) > 0
    /\ fireflies[1].id # 1

\* The mouse-up that is a click, and the step that runs updatePokeEffect.
ClickStep == pc = "idle" /\ isDragging /\ ~hasDragged /\ ~isDragging'
PokeEffectStep == pc = "updateTongueAnimation" /\ pc' = "updateBoids"

\* C10: a click that hits the jar sets pokePosition to the hit and pokeTime
\* to 0; every frame with a poke adds deltaTime to pokeTime, and the first
\* frame that brings it above POKE_DURATION clears the poke; nothing else
\* changes the poke; with frames arriving, every poke is cleared in the end.
C10_PokeTimer ==
    /\ [][(ClickStep /\ intersects' # NoPoke)
            => (pokePosition' = intersects' /\ pokeTime' = 0)]_vars
    /\ [][(PokeEffectStep /\ pokePosition # NoPoke)
            => IF pokeTime + deltaTime > POKE_DURATION
               THEN pokePosition' = NoPoke /\ pokeTime' = 0
               ELSE pokePosition' = pokePosition
                      /\ pokeTime' = pokeTime + deltaTime]_vars
    /\ [][(ClickStep /\ intersects' # NoPoke)
            \/ (PokeEffectStep /\ pokePosition # NoPoke)
            \/ UNCHANGED pokeVars]_vars
    /\ (pokePosition # NoPoke ~> pokePosition = NoPoke)

\* A click has hit the jar, a second one has set the timer back, and a
\* frame has now cleared the poke.
C10_Witness ==
    /\ pc = "updateBoids"
    /\ events = MaxPointerEvents
    /\ intersects # NoPoke
    /\ pokePosition = NoPoke
    /\ pokeTime = 0
    /\ ticks > MaxTicks + 1

\* The step that calls getRepulsion again for a poke that is older.
RepulsionLaterStep ==
    pc = "getRepulsion" /\ pc' = "getRepulsion" /\ pokeTime' > pokeTime

\* C11 as stated: for a firefly that stays where it is, the repulsion
\* getRepulsion returns is strictly shorter when pokeTime is larger.
C11_RepulsionDecays ==
    [][RepulsionLaterStep =>
         \A i \in 1..Len(fireflies) :
            LengthSq(boidsLocals'[i].rep) < LengthSq(boidsLocals[i].rep)]_vars

\* C11, amended: for a firefly that stays where it is, closer to the poke
\* than REPULSION_RADIUS and not on it, the repulsion is strictly shorter
\* when pokeTime is larger; for every other firefly it is zero throughout.
C11_RepulsionDecaysInRadius ==
    [][RepulsionLaterStep =>
         \A i \in 1..Len(fireflies) :
            IF /\ DistanceSq(fireflies[i].position, pokePosition) > 0
               /\ DistanceSq(fireflies[i].position, pokePosition)
                     < REPULSION_RADIUS * REPULSION_RADIUS
            THEN LengthSq(boidsLocals'[i].rep) < LengthSq(boidsLocals[i].rep)
            ELSE boidsLocals'[i].rep = Zero3 /\ boidsLocals[i].rep = Zero3]_vars

\* getRepulsion has been called for a poke that is halfway: one firefly
\* within the radius is pushed, another one is beyond the radius.
C11_Witness ==
    /\ pc = "getRepulsion"
    /\ pokePosition # NoPoke
    /\ pokeTime > 0
    /\ pokeTime < POKE_DURATION
    /\ \E i \in 1..Len(fireflies) :
          /\ DistanceSq(fireflies[i].position, pokePosition)
                < REPULSION_RADIUS * REPULSION_RADIUS
          /\ boidsLocals[i].rep # Zero3
    /\ \E i \in 1..Len(fireflies) :
          DistanceSq(fireflies[i].position, pokePosition)
             >= REPULSION_RADIUS * REPULSION_RADIUS

\* The step that calls applyJarBoundary.
BoundaryStep == pc = "idle" /\ pc' = "applyJarBoundary"

\* C12: a firefly beyond the wall radius that is above the rim of the open
\* jar keeps its position in applyJarBoundary (so does the one at radius
\* jarRadius + 1 and height jarHeight/2 + 1); every other firefly beyond the
\* wall radius ends at radius jarRadius - 0.01, in the same horizontal
\* direction (up to two thousandths, the rounding of the quotients).
C12_EscapeOrClamp ==
    [][BoundaryStep =>
         \A i \in 1..Len(fireflies) :
            /\ (/\ RadialSq(fireflies[i].position)
                      = (jarRadius + Scale) * (jarRadius + Scale)
                /\ fireflies[i].position[2] = jarHeight \div 2 + Scale
                /\ jarOpen)
                  => fireflies'[i].position = fireflies[i].position
            /\ (/\ RadialSq(fireflies[i].position) > jarRadius * jarRadius
                /\ jarOpen
                /\ fireflies[i].position[2] > jarHeight \div 2)
                  => fireflies'[i].position = fireflies[i].position
            /\ (/\ RadialSq(fireflies[i].position) > jarRadius * jarRadius
                /\ ~(jarOpen /\ fireflies[i].position[2] > jarHeight \div 2))
                  => /\ RadialSq(fireflies'[i].position)
                           <= (jarRadius - ClampOffset) * (jarRadius - ClampOffset)
                     /\ RadialSq(fireflies'[i].position)
                           >= (jarRadius - ClampOffset - 2)
                                 * (jarRadius - ClampOffset - 2)
                     /\ fireflies[i].position[1] * fireflies'[i].position[1]
                           + fireflies[i].position[3] * fireflies'[i].position[3] > 0
                     /\ Abs(fireflies[i].position[1] * fireflies'[i].position[3]
                              - fireflies[i].position[3] * fireflies'[i].position[1])
                           <= Abs(fireflies[i].position[1])
                                + Abs(fireflies[i].position[3])]_vars

\* applyJarBoundary has run with the jar closed for a firefly found at
\* radius jarRadius + 1 and height jarHeight/2 + 1: it is now at radius
\* jarRadius - 0.01 under the lid.
C12_Witness ==
    /\ pc = "applyJarBoundary"
    /\ ~jarOpen
    /\ \E i \in 1..Len(fireflies) :
          /\ RadialSq(boidsLocals[i].position)
                = (jarRadius + Scale) * (jarRadius + Scale)
          /\ boidsLocals[i].position[2] = jarHeight \div 2 + Scale
          /\ RadialSq(fireflies[i].position)
                = (jarRadius - ClampOffset) * (jarRadius - ClampOffset)
          /\ fireflies[i].position[2] = jarHeight \div 2 - ClampOffset

\* C13: a firefly that applyJarBoundary finds below GROUND_LEVEL, inside or
\* outside the jar, the jar open or closed, ends at GROUND_LEVEL, and if it
\* was falling its vertical velocity is -0.5 times what it was; the one at
\* GROUND_LEVEL - 1 with vy = -1 ends at GROUND_LEVEL with vy = 0.5.
C13_FloorBounce ==
    [][BoundaryStep =>
         \A i \in 1..Len(fireflies) :
            fireflies[i].position[2] < GROUND_LEVEL
               => /\ fireflies'[i].position[2] = GROUND_LEVEL
                  /\ fireflyVelocities[i][2] < 0
                        => /\ 2 * fireflyVelocities'[i][2] <= -fireflyVelocities[i][2]
                           /\ 2 * fireflyVelocities'[i][2]
                                 >= -fireflyVelocities[i][2] - 1
                  /\ (/\ fireflies[i].position[2] = GROUND_LEVEL - Scale
                      /\ fireflyVelocities[i][2] = -Scale)
                        => 2 * fireflyVelocities'[i][2] = Scale]_vars

\* applyJarBoundary has run with the jar open for a firefly found at
\* GROUND_LEVEL - 1 beyond the wall radius with vy = -1: it is at
\* GROUND_LEVEL with vy = 0.5; another one was found there inside the wall.
C13_Witness ==
    /\ pc = "applyJarBoundary"
    /\ jarOpen
    /\ \E i \in 1..Len(fireflies) :
          /\ boidsLocals[i].position[2] = GROUND_LEVEL - Scale
          /\ boidsLocals[i].velocity[2] = -Scale
          /\ RadialSq(boidsLocals[i].position) > jarRadius * jarRadius
          /\ fireflies[i].position[2] = GROUND_LEVEL
          /\ 2 * fireflyVelocities[i][2] = Scale
    /\ \E i \in 1..Len(fireflies) :
          /\ boidsLocals[i].position[2] < GROUND_LEVEL
          /\ RadialSq(boidsLocals[i].position) <= jarRadius * jarRadius
          /\ fireflies[i].position[2] = GROUND_LEVEL

\* The arrays as the pass of firefly i finds them in the updateBoids of this
\* step: the fireflies before i have moved already.
PassPositions(i) ==
    [j \in 1..Len(fireflies) |->
       IF j < i THEN fireflies'[j].position ELSE fireflies[j].position]
PassVelocities(i) ==
    [j \in 1..Len(fireflies) |->
       IF j < i THEN fireflyVelocities'[j] ELSE fireflyVelocities[j]]

\* C14: a keydown of the space bar flips jarOpen, and the next updateBoids
\* goes by the new value, wherever the lid is: the separation radius is 6.0
\* for the open jar and separationDistance for the closed one, the closed
\* jar keeps every firefly under the lid, and the open jar leaves a firefly
\* above the rim where it is.
C14_JarSwitchImmediate ==
    /\ [][Input(MaxEvents, OnKeyDown(" ")) => jarOpen' = ~jarOpen]_vars
    /\ [][UpdateBoidsStep =>
            \A i \in 1..Len(fireflies) :
               /\ boidsLocals'[i].sep =
                     separation(PassPositions(i), PassVelocities(i), i,
                                IF jarOpen THEN OpenSeparationRadius
                                ELSE separationDistance)
               /\ ~jarOpen
                     => boidsLocals'[i].boundaryPosition[2] <= jarHeight \div 2
               /\ (jarOpen /\ boidsLocals'[i].position[2] > jarHeight \div 2)
                     => boidsLocals'[i].boundaryPosition
                           = boidsLocals'[i].position]_vars

\* updateBoids has run for the jar that was just closed, the lid still on
\* its way down: a firefly found above the rim is under the lid.
C14_Witness ==
    /\ pc = "updateKuramoto"
    /\ ~jarOpen
    /\ lidRotation > 0
    /\ lidRotation < LID_OPEN_ANGLE
    /\ \E i \in 1..Len(fireflies) :
          /\ boidsLocals[i].position[2] > jarHeight \div 2
          /\ boidsLocals[i].boundaryPosition[2] = jarHeight \div 2 - ClampOffset

\* The step that calls separation.
SeparationStep == pc = "idle" /\ pc' = "separation"

\* The cross product of two vectors.
Cross(a, b) ==
    <<a[2] * b[3] - a[3] * b[2], a[3] * b[1] - a[1] * b[3],
      a[1] * b[2] - a[2] * b[1]>>

\* C15: for two fireflies alone, at rest, closer to each other than the
\* separation radius and not coincident, the two separation forces are each
\* other's negative and lie along the line that joins the fireflies (up to
\* three thousandths, the rounding of the quotients); a firefly with no other one
\* inside the radius gets the zero vector.
C15_SeparationSymmetric ==
    [][SeparationStep =>
         /\ (/\ Len(fireflies) = 2
             /\ fireflyVelocities[1] = Zero3
             /\ fireflyVelocities[2] = Zero3
             /\ DistanceSq(fireflies[1].position, fireflies[2].position) > 0
             /\ DistanceSq(fireflies[1].position, fireflies[2].position)
                   < SeparationRadius * SeparationRadius)
               => /\ boidsLocals'[1].sep = VSub(Zero3, boidsLocals'[2].sep)
                  /\ \A c \in 1..3 :
                        Abs(Cross(boidsLocals'[1].sep,
                                  VSub(fireflies[1].position,
                                       fireflies[2].position))[c])
                           <= 3 * Length(VSub(fireflies[1].position,
                                              fireflies[2].position))
         /\ \A i \in 1..Len(fireflies) :
               (\A j \in 1..Len(fireflies) \ {i} :
                   DistanceSq(fireflies[i].position, fireflies[j].position)
                      >= SeparationRadius * SeparationRadius)
                  => boidsLocals'[i].sep = Zero3]_vars

\* separation has been called for two fireflies at rest, 0.3 apart in the
\* closed jar: each is pushed away from the other.
C15_Witness ==
    /\ pc = "separation"
    /\ ~jarOpen
    /\ Len(fireflies) = 2
    /\ fireflyVelocities[1] = Zero3
    /\ fireflyVelocities[2] = Zero3
    /\ DistanceSq(fireflies[1].position, fireflies[2].position) > 0
    /\ DistanceSq(fireflies[1].position, fireflies[2].position)
          < separationDistance * separationDistance
    /\ boidsLocals[1].sep # Zero3
    /\ boidsLocals[1].sep = VSub(Zero3, boidsLocals[2].sep)

WallEntry(i) ==
    BoundaryLid(BoundaryFloor([position |-> fireflies[i].position,
                               velocity |-> fireflyVelocities[i]]), jarOpen)

\* The wall step acts on firefly i: it is beyond the wall radius and may not
\* escape.
WallActs(i) ==
    /\ RadialSq(WallEntry(i).position) > jarRadius * jarRadius
    /\ ~(jarOpen /\ WallEntry(i).position[2] > jarHeight \div 2)

\* The horizontal velocity v along the outward direction of the position p,
\* times the distance of p from the axis; and across it.
RadialPart(v, p) == v[1] * p[1] + v[3] * p[3]
TangentialPart(v, p) == v[1] * p[3] - v[3] * p[1]

\* C17: when the wall step acts on a firefly whose horizontal velocity
\* points outward, the radial velocity afterwards is -0.5 times what it was
\* (up to the rounding of the quotients) and points inward, however far
\* beyond the wall the firefly is.
C17_WallReflection ==
    [][BoundaryStep =>
         \A i \in 1..Len(fireflies) :
            (/\ WallActs(i)
             /\ RadialPart(WallEntry(i).velocity, WallEntry(i).position) > 0)
               => /\ RadialPart(fireflyVelocities'[i], WallEntry(i).position) <= 0
                  /\ Abs(2 * RadialPart(fireflyVelocities'[i], WallEntry(i).position)
                           + RadialPart(WallEntry(i).velocity, WallEntry(i).position))
                        <= 4 * (Abs(WallEntry(i).position[1])
                                  + Abs(WallEntry(i).position[3]))]_vars

\* C18 as stated: the wall step leaves the tangential horizontal velocity
\* (up to the rounding of the quotients) and the vertical velocity as they
\* were.
C18_WallKeepsTangential ==
    [][BoundaryStep =>
         \A i \in 1..Len(fireflies) :
            WallActs(i)
               => /\ fireflyVelocities'[i][2] = WallEntry(i).velocity[2]
                  /\ Abs(TangentialPart(fireflyVelocities'[i], WallEntry(i).position)
                           - TangentialPart(WallEntry(i).velocity,
                                            WallEntry(i).position))
                        <= 2 * (Abs(WallEntry(i).position[1])
                                  + Abs(WallEntry(i).position[3]))]_vars

\* C18, amended: the wall step leaves the vertical velocity as it was; it
\* leaves the tangential horizontal velocity as it was when the velocity
\* does not point outward, and halves it (the 0.5 friction, up to the
\* rounding of the quotients) when it does.
C18_WallHalvesTangential ==
    [][BoundaryStep =>
         \A i \in 1..Len(fireflies) :
            WallActs(i)
               => /\ fireflyVelocities'[i][2] = WallEntry(i).velocity[2]
                  /\ IF RadialPart(WallEntry(i).velocity, WallEntry(i).position) > 0
                     THEN Abs(2 * TangentialPart(fireflyVelocities'[i],
                                                 WallEntry(i).position)
                                - TangentialPart(WallEntry(i).velocity,
                                                 WallEntry(i).position))
                             <= 2 * (Abs(WallEntry(i).position[1])
                                       + Abs(WallEntry(i).position[3]))
                     ELSE TangentialPart(fireflyVelocities'[i], WallEntry(i).position)
                             = TangentialPart(WallEntry(i).velocity,
                                              WallEntry(i).position)]_vars

\* applyJarBoundary has run for a firefly found on the x axis just beyond
\* the wall, moving outward and sideways: its sideways velocity vz is half
\* of what it was, its vertical velocity what it was; another firefly found
\* beyond the wall was not moving outward and has its velocity still.
C18_Witness ==
    /\ pc = "applyJarBoundary"
    /\ \E i \in 1..Len(fireflies) :
          /\ RadialSq(boidsLocals[i].position) > jarRadius * jarRadius
          /\ boidsLocals[i].position[2] <= jarHeight \div 2
          /\ boidsLocals[i].position[2] >= GROUND_LEVEL
          /\ boidsLocals[i].position[3] = 0
          /\ RadialPart(boidsLocals[i].velocity, boidsLocals[i].position) > 0
          /\ boidsLocals[i].velocity[3] > 0
          /\ 2 * fireflyVelocities[i][3] = boidsLocals[i].velocity[3]
          /\ fireflyVelocities[i][2] = boidsLocals[i].velocity[2]
    /\ \E i \in 1..Len(fireflies) :
          /\ RadialSq(boidsLocals[i].position) > jarRadius * jarRadius
          /\ boidsLocals[i].position[2] <= jarHeight \div 2
          /\ boidsLocals[i].position[2] >= GROUND_LEVEL
          /\ RadialPart(boidsLocals[i].velocity, boidsLocals[i].position) <= 0
          /\ fireflyVelocities[i] = boidsLocals[i].velocity

\* The flocking strength of every firefly in the updateBoids of this step is
\* 1 without a poke or at REPULSION_RADIUS or more from it, and the square of
\* pokeTime / POKE_DURATION otherwise; it is within 0..1.
FlockingStrengthValue ==
    UpdateBoidsStep =>
       \A i \in 1..Len(fireflies) :
          /\ boidsLocals'[i].flockingStrength >= 0
          /\ boidsLocals'[i].flockingStrength <= Scale
          /\ boidsLocals'[i].flockingStrength =
                IF \/ pokePosition = NoPoke
                   \/ DistanceSq(boidsLocals'[i].position, pokePosition)
                         >= REPULSION_RADIUS * REPULSION_RADIUS
                THEN Scale
                ELSE Quot(Quot(pokeTime * Scale, POKE_DURATION)
                            * Quot(pokeTime * Scale, POKE_DURATION), Scale)

\* Firefly i was within the radius of the poke in the updateBoids before
\* and is so in the updateBoids of this step.
StaysInPoke(i) ==
    /\ Len(boidsLocals) = Len(fireflies)
    /\ boidsLocals[i].inPoke
    /\ boidsLocals'[i].inPoke

\* C19 as stated: the flocking strength has the value above, and for a
\* firefly that stays within the radius of the poke it does not decrease
\* from one frame to the next.
C19_FlockingRecovers ==
    /\ [][FlockingStrengthValue]_vars
    /\ [][UpdateBoidsStep =>
            \A i \in 1..Len(fireflies) :
               StaysInPoke(i)
                  => boidsLocals'[i].flockingStrength
                        >= boidsLocals[i].flockingStrength]_vars

\* C19, amended: the flocking strength has the value above, and for a
\* firefly that stays within the radius of the poke it does not decrease
\* from one frame to the next unless a click has hit the jar in between
\* and set the timer back.
C19_FlockingRecoversUntilHit ==
    /\ [][FlockingStrengthValue]_vars
    /\ [][UpdateBoidsStep =>
            \A i \in 1..Len(fireflies) :
               (StaysInPoke(i) /\ ~hitSinceBoids)
                  => boidsLocals'[i].flockingStrength
                        >= boidsLocals[i].flockingStrength]_vars

\* The second updateBoids of one poke has run: the timer holds more than
\* the time of this frame, and a firefly within the radius has a flocking
\* strength between 0 and 1.
C19_Witness ==
    /\ pc = "updateKuramoto"
    /\ pokePosition # NoPoke
    /\ pokeTime > deltaTime
    /\ \E i \in 1..Len(fireflies) :
          /\ boidsLocals[i].inPoke
          /\ boidsLocals[i].flockingStrength > 0
          /\ boidsLocals[i].flockingStrength < Scale

\* C20: the velocity updateBoids gives a firefly before the limits is its
\* old velocity plus the repulsion if a poke is active, plus, with the jar
\* closed, separation, alignment x flockingStrength and cohesion x
\* flockingStrength, and with the jar open separation x 0.1, cohesion and
\* alignment x 0.1 x flockingStrength and wander x 0.5.
C20_ForceWeights ==
    [][UpdateBoidsStep =>
         \A i \in 1..Len(fireflies) :
            LET L == boidsLocals'[i]
                poked == IF pokePosition # NoPoke
                         THEN VAdd(fireflyVelocities[i], L.rep)
                         ELSE fireflyVelocities[i]
            IN  IF jarOpen
                THEN L.forced =
                       VAdd(VAdd(VAdd(VAdd(poked, VScale(L.sep, 100, Scale)),
                                      VScale(L.coh,
                                             Quot(100 * L.flockingStrength, Scale),
                                             Scale)),
                                 VScale(L.ali,
                                        Quot(100 * L.flockingStrength, Scale),
                                        Scale)),
                            VScale(L.wan, 500, Scale))
                ELSE L.forced =
                       VAdd(VAdd(VAdd(poked, L.sep),
                                 VScale(L.ali, L.flockingStrength, Scale)),
                            VScale(L.coh, L.flockingStrength, Scale))]_vars

\* updateBoids has run with the jar open and a poke active: a firefly within
\* the radius of the poke, its flocking strength below 1, has got repulsion,
\* separation, cohesion or alignment, and wander.
C20_Witness ==
    /\ pc = "updateKuramoto"
    /\ jarOpen
    /\ pokePosition # NoPoke
    /\ \E i \in 1..Len(fireflies) :
          /\ boidsLocals[i].inPoke
          /\ boidsLocals[i].flockingStrength > 0
          /\ boidsLocals[i].flockingStrength < Scale
          /\ boidsLocals[i].rep # Zero3
          /\ boidsLocals[i].sep # Zero3
          /\ boidsLocals[i].coh # Zero3
          /\ boidsLocals[i].ali # Zero3
          /\ boidsLocals[i].wan # Zero3

\* Firefly i has no other firefly within couplingRadius.
Isolated(i) ==
    \A j \in 1..Len(fireflies) :
       j # i => DistanceSq(fireflies[i].position, fireflies[j].position)
                   >= couplingRadius * couplingRadius

\* The phase of firefly i after a call that finds the fireflies j of nb
\* coupled to it, from the positions, phases, frequencies and deltaTime
\* alone.
CoupledPhase(i, nb) ==
    LET sum == CouplingSum(fireflyPhases, i, nb, Len(fireflies))
        dPhase == fireflyFrequencies[i]
                    + Quot(couplingStrength * sum, Cardinality(nb))
    IN  WrapPhase(fireflyPhases[i] + Quot(dPhase * deltaTime, Scale))

\* C21: updateKuramoto advances the phase of a firefly with no other firefly
\* within couplingRadius by its natural frequency times deltaTime before the
\* wrap, whatever couplingStrength and the other phases are; and the phase it
\* gives any firefly is the same function of positions, phases, frequencies
\* and deltaTime with the jar open and with the jar closed.
C21_IsolatedPhaseAdvance ==
    [][UpdateKuramotoStep =>
         \A i \in 1..Len(fireflies) :
            LET nb == { j \in 1..Len(fireflies) : j # i /\ ~Isolated(i) /\
                          DistanceSq(fireflies[i].position, fireflies[j].position)
                             < couplingRadius * couplingRadius }
            IN  /\ Isolated(i) =>
                     fireflyPhases'[i] =
                        WrapPhase(fireflyPhases[i]
                                    + Quot(fireflyFrequencies[i] * deltaTime, Scale))
                /\ ~Isolated(i) => fireflyPhases'[i] = CoupledPhase(i, nb)]_vars

\* updateKuramoto has run with the jar open on two fireflies farther apart
\* than couplingRadius, with different phases.
C21_Witness ==
    /\ pc = "idle"
    /\ brightness # <<>>
    /\ jarOpen
    /\ Len(fireflies) >= 2
    /\ \E i \in 1..Len(fireflies) :
          /\ Isolated(i)
          /\ \E j \in 1..Len(fireflies) : fireflyPhases[j] # fireflyPhases[i]

\* A step in which resetSimulation runs.
ResetStep == resets' > 0

\* C22: updateKuramoto leaves every position and velocity as they were,
\* updateBoids leaves every phase and natural frequency as they were, and
\* in every step other than a reset a firefly that is there before and
\* after has the natural frequency it had.
C22_FrameEffects ==
    [][/\ UpdateKuramotoStep =>
            /\ Positions(fireflies') = Positions(fireflies)
            /\ fireflyVelocities' = fireflyVelocities
       /\ UpdateBoidsStep =>
            /\ fireflyPhases' = fireflyPhases
            /\ fireflyFrequencies' = fireflyFrequencies
       /\ ~ResetStep =>
            \A i \in 1..Len(fireflies) : \A j \in 1..Len(fireflies') :
               fireflies[i].id = fireflies'[j].id =>
                  /\ j <= Len(fireflyFrequencies')
                  /\ fireflyFrequencies'[j] = fireflyFrequencies[i]]_vars

\* updateBoids and updateKuramoto have run on a firefly that moved up in
\* the arrays when the one before it was caught.
C22_Witness ==
    /\ pc = "idle"
    /\ ticks > 0
    /\ brightness # <<>>
    /\ bugsCaught > 0
    /\ resets = 0
    /\ \E j \in 1..Len(fireflies) : fireflies[j].id # j

\* A firefly (its position, velocity, phase and natural frequency) is one
\* the creation can give: within 0.8 jarRadius of the axis, within 0.8
\* jarHeight / 2 of the middle height, no faster than maxSpeed, its phase in
\* [0, 2 pi) and its frequency within baseFrequency +- frequencyVariance.
\* The sine and cosine of the model are exact to two thousandths, which the
\* radius allows for.
InSpawnSet(position, velocity, phase, frequency) ==
    /\ 100 * RadialSq(position) <= (8 * jarRadius + 2 * 10) * (8 * jarRadius + 2 * 10)
    /\ 10 * Abs(position[2]) <= 8 * (jarHeight \div 2)
    /\ position[2] > GROUND_LEVEL
    /\ 2 * Abs(position[2]) < jarHeight
    /\ RadialSq(position) < jarRadius * jarRadius
    /\ LengthSq(velocity) <= maxSpeed * maxSpeed
    /\ phase >= 0 /\ phase < TwoPi
    /\ frequency >= baseFrequency - frequencyVariance
    /\ frequency <= baseFrequency + frequencyVariance

\* C23: every firefly the creation loop makes, at the start and in
\* resetSimulation alike, is within 0.8 jarRadius of the axis and 0.8
\* jarHeight / 2 of the middle height (inside the closed jar, above the
\* ground), no faster than maxSpeed, with a phase in [0, 2 pi) and a natural
\* frequency within baseFrequency +- frequencyVariance; the fireflies the
\* start and the reset draw are of that set.
C23_SpawnWithinInvariants ==
    /\ pc = "createFirefly" =>
          \A i \in 1..Len(fireflies) :
             /\ InSpawnSet(fireflies[i].position, fireflyVelocities[i],
                           fireflyPhases[i], fireflyFrequencies[i])
             /\ fireflyPositions[i] = fireflies[i].position
    /\ \A sm \in SpawnSamples :
          InSpawnSet(sm.position, sm.velocity, sm.phase, sm.frequency)

\* The creation has made a firefly at the largest radius and height, with
\* the largest speed, phase and frequency the draws give.
C23_Witness ==
    /\ pc = "createFirefly"
    /\ Len(fireflies) = 1
    /\ 10 * CeilSqrt(RadialSq(fireflies[1].position)) >= 8 * jarRadius - 2 * 10
    /\ 10 * fireflies[1].position[2] >= 8 * (jarHeight \div 2) - 5 * 10
    /\ LengthSq(fireflyVelocities[1]) >= 3 * 24 * 24
    /\ fireflyPhases[1] > TwoPi - 10
    /\ fireflyFrequencies[1] >= baseFrequency + frequencyVariance - 1

\* The product a . b.
Dot(a, b) == a[1] * b[1] + a[2] * b[2] + a[3] * b[3]

\* C25: updateBoids never runs with an active poke older than POKE_DURATION
\* (updatePokeEffect has run before it in the frame), so the weight
\* 1 - pokeTime / POKE_DURATION of the repulsion is not negative, the
\* repulsion never points towards the poke, and every currentSpeedLimit is at
\* least maxSpeed and at most maxSpeed * (1 + MAX_BURST_MULTIPLIER).
C25_PokeTimeWithinDuration ==
    /\ []((pc = "updateBoids" /\ pokePosition # NoPoke)
             => /\ pokeTime >= 0
                /\ pokeTime <= POKE_DURATION
                /\ Scale - Quot(pokeTime * Scale, POKE_DURATION) >= 0)
    /\ [][UpdateBoidsStep =>
            \A i \in 1..Len(boidsLocals') :
               /\ boidsLocals'[i].currentSpeedLimit >= maxSpeed
               /\ boidsLocals'[i].currentSpeedLimit
                     <= maxSpeed * (1 + MAX_BURST_MULTIPLIER)
               /\ pokePosition # NoPoke =>
                     Dot(boidsLocals'[i].rep,
                         VSub(boidsLocals'[i].position, pokePosition)) >= 0]_vars

\* updateBoids has run with the timer of the poke on POKE_DURATION exactly,
\* for a firefly the poke reaches.
C25_Witness ==
    /\ pc = "updateKuramoto"
    /\ pokePosition # NoPoke
    /\ pokeTime = POKE_DURATION
    /\ \E i \in 1..Len(fireflies) :
          /\ boidsLocals[i].inPoke
          /\ boidsLocals[i].currentSpeedLimit = maxSpeed

\* C26: the catches counted and the fireflies alive add up to FIREFLY_COUNT
\* in every state; a call of checkFireflyCollisions adds to bugsCaught the
\* number of fireflies it removes, resetSimulation sets bugsCaught to 0 and
\* the population to FIREFLY_COUNT, and the population grows in a reset only.
C26_CaughtPlusAlive ==
    /\ [](bugsCaught + Len(fireflies) = FIREFLY_COUNT)
    /\ [][/\ CollisionStep =>
               /\ Len(fireflies') <= Len(fireflies)
               /\ bugsCaught' - bugsCaught = Len(fireflies) - Len(fireflies')
          /\ ResetStep => bugsCaught' = 0 /\ Len(fireflies') = FIREFLY_COUNT
          /\ Len(fireflies') > Len(fireflies) => ResetStep]_vars

\* The first frame has caught every firefly in one call of
\* checkFireflyCollisions.
C26_Witness ==
    /\ pc = "updateTongueAnimation"
    /\ ticks = 1
    /\ FIREFLY_COUNT > 1
    /\ bugsCaught = FIREFLY_COUNT
    /\ Len(fireflies) = 0

\* The catch radius of a firefly at pos: the larger one beyond the wall
\* radius or above the rim.
CatchRadius(pos) ==
    IF RadialSq(pos) > jarRadius * jarRadius \/ pos[2] > jarHeight \div 2
    THEN FIREFLY_CATCH_RADIUS_OUTSIDE
    ELSE FIREFLY_CATCH_RADIUS_INSIDE

\* The firefly at pos is within its catch radius of the camera at cam.
WithinCatch(cam, pos) == DistanceSq(cam, pos) < CatchRadius(pos) * CatchRadius(pos)

\* C27: after checkFireflyCollisions no firefly left is within its catch
\* radius of the camera, and the fireflies left are those of before that
\* were not within it, in their order: every firefly is tested once, also
\* when its neighbour in the arrays is removed in the same call.
C27_NoSurvivorInCatchRadius ==
    [][CollisionStep =>
         /\ \A j \in 1..Len(fireflies') :
               ~WithinCatch(cameraPosition', fireflies'[j].position)
         /\ \A i \in 1..Len(fireflies) :
               WithinCatch(cameraPosition', fireflies[i].position)
                  <=> (\A j \in 1..Len(fireflies') :
                          fireflies'[j].id # fireflies[i].id)
         /\ \A j, k \in 1..Len(fireflies') :
               j < k => fireflies'[j].id < fireflies'[k].id]_vars

\* checkFireflyCollisions has caught a firefly and left one that is farther
\* from the camera than the radius for the inside, and nearer than the
\* radius for the outside.
C27_Witness ==
    /\ pc = "updateTongueAnimation"
    /\ bugsCaught > 0
    /\ \E j \in 1..Len(fireflies) :
          /\ ~WithinCatch(cameraPosition, fireflies[j].position)
          /\ DistanceSq(cameraPosition, fireflies[j].position)
                < FIREFLY_CATCH_RADIUS_OUTSIDE * FIREFLY_CATCH_RADIUS_OUTSIDE

\* The steps of the tongue animation.
TongueCycle ==
    { <<"hidden", "extending">>, <<"extending", "holding">>,
      <<"holding", "retracting">>, <<"retracting", "hidden">> }

\* C28: the tongue goes from hidden to extending, holding, retracting and
\* hidden again and no other way; a catch while the tongue is not hidden
\* leaves the animation as it is; tongueProgress is within 0 and 1 and the
\* tongue is visible exactly when its state is not hidden.
C28_TongueCycle ==
    /\ [](/\ tongueState \in {"hidden", "extending", "holding", "retracting"}
          /\ tongueProgress >= 0
          /\ tongueProgress <= Scale
          /\ tongueVisible <=> tongueState # "hidden")
    /\ [][/\ tongueState' # tongueState => <<tongueState, tongueState'>> \in TongueCycle
          /\ (CollisionStep /\ tongueState # "hidden") => UNCHANGED tongueVars
          /\ (CollisionStep /\ tongueState = "hidden" /\ bugsCaught' = bugsCaught)
                => UNCHANGED tongueVars
          /\ (CollisionStep /\ tongueState = "hidden" /\ bugsCaught' > bugsCaught)
                => tongueState' = "extending" /\ tongueProgress' = 0]_vars

\* The tongue has caught a firefly, has been held out for longer than
\* TONGUE_HOLD_TIME, and is hidden again.
C28_Witness ==
    /\ pc = "idle"
    /\ bugsCaught > 0
    /\ tongueState = "hidden"
    /\ ~tongueVisible
    /\ tongueProgress = 0
    /\ tongueHoldTimer > TONGUE_HOLD_TIME

\* The pointer, as the last mouse event reported it, is more than
\* DRAG_THRESHOLD pixels from the press point in one axis.
BeyondThreshold ==
    \/ Abs(previousMouse[1] - dragStart[1]) > DRAG_THRESHOLD
    \/ Abs(previousMouse[2] - dragStart[2]) > DRAG_THRESHOLD

\* C29: a poke is set only by the mouseup of a press (the time from the
\* last mousedown on) during which no move took the pointer more than
\* DRAG_THRESHOLD pixels from the press point in either axis; a press that
\* a move has made a drag stays one until its mouseup or a new mousedown,
\* also when the pointer is back at the press point; without a press a
\* mouseup sets no poke.
C29_PokeOnlyByClick ==
    /\ [](/\ ~isDragging => ~hasDragged
          /\ (isDragging /\ BeyondThreshold) => hasDragged)
    /\ [][/\ (pc' = "idle" /\ (pokeVars' # pokeVars \/ intersects' # intersects))
               => (isDragging /\ ~hasDragged /\ ~isDragging')
          /\ (~hasDragged /\ hasDragged')
               => (isDragging /\ isDragging' /\ dragStart' = dragStart
                     /\ BeyondThreshold')
          /\ (hasDragged /\ ~hasDragged')
               => (~isDragging' \/ (dragStart' = previousMouse'
                                      /\ cameraEuler' = cameraEuler))]_vars

\* The pointer was pressed, moved away and is back at the press point: the
\* press is a drag still.
C29_Witness ==
    /\ isDragging
    /\ hasDragged
    /\ previousMouse = dragStart
    /\ pokePosition = NoPoke

\* An array in the opposite order.
Reverse(a) == [i \in 1..Len(a) |-> a[Len(a) + 1 - i]]

\* C30: updateKuramoto gives every firefly the phase that follows from the
\* derivative computed on the phases all fireflies had when the call began,
\* and the same fireflies in the opposite index order get the same phases.
C30_PhasesFromSnapshot ==
    [][UpdateKuramotoStep =>
         LET P == Positions(fireflies)
         IN  /\ \A i \in 1..Len(fireflies) :
                   fireflyPhases'[i] =
                      WrapPhase(fireflyPhases[i]
                                  + Quot(PhaseDerivative(P, fireflyPhases,
                                                         fireflyFrequencies, i)
                                           * deltaTime, Scale))
             /\ fireflyPhases' =
                   Reverse(updateKuramoto(Reverse(P), Reverse(fireflyPhases),
                                          Reverse(fireflyFrequencies), deltaTime))]_vars

\* updateKuramoto has run on two fireflies within couplingRadius of each
\* other whose phases differ.
C30_Witness ==
    /\ pc = "idle"
    /\ ticks > 0
    /\ resets = 0
    /\ Len(fireflies) = FIREFLY_COUNT
    /\ \E i, j \in 1..Len(fireflies) :
          /\ i < j
          /\ DistanceSq(fireflies[i].position, fireflies[j].position)
                < couplingRadius * couplingRadius
          /\ fireflyPhases[i] # fireflyPhases[j]
          /\ fireflyFrequencies[i] # fireflyFrequencies[j]
====
